---- MODULE Spec2Model ----
(***************************************************************************)
(* Model of the AI News Bot orchestrator (src/src/index.ts), its seen-     *)
(* state store (src/src/state.ts) and the collaborators it drives.         *)
(*                                                                         *)
(* One invocation runs at a time: a batch run (runScrapeCheck, normal or   *)
(* seed mode) or a manual single-URL invocation (processManualUrl).  The   *)
(* outcome of every external call (candidate fetch, content fetch, LLM,    *)
(* Slack) is an input chosen with \E.                                      *)
(***************************************************************************)
EXTENDS Integers, Sequences, FiniteSets, TLC

\* ---------------------------------------------------------------- bounds
\* Number of invocations (batch runs and manual invocations) explored.
MaxRuns == 3
\* Invocations explored from a state file the program did not write.
MaxBadFileRuns == 2
\* Normal batch runs explored with the posts of every URL counted.
MaxBatchRuns == 2
\* Longest candidate list a source fetch returns.
MaxCandidates == 2
\* Most words in the text of a slash command.
MaxWords == 3
\* Most characters in the LLM's answer to the summary request.
MaxChars == 8

\* ------------------------------------------------------------- constants
\* Article URLs that the sources may list.
URLs == {"u1", "u2"}

\* The source registry, in registry order.  Source A is a feed source
\* (rssUrl set: fetchRss does not deduplicate), B and C are index pages
\* (extractArticleUrls returns Array.from(Set)).
\* `links` are the article URLs the source's site can list: u2 is listed
\* by A and by B, u1 by A and by C.
SOURCES ==
  << [name |-> "A", contentType |-> "technical",    rssUrl |-> TRUE,
      links |-> {"u1", "u2"}],
     [name |-> "B", contentType |-> "technical",    rssUrl |-> FALSE,
      links |-> {"u2"}],
     [name |-> "C", contentType |-> "announcement", rssUrl |-> FALSE,
      links |-> {"u1"}] >>

SourceNames == {SOURCES[i].name : i \in DOMAIN SOURCES}

ContentTypes == {"technical", "announcement"}

\* config.slackChannelId, and the channelId arguments a caller may pass
\* ("" stands for an omitted argument).
PrimaryChannelId == "PRIMARY"
ChannelArgs == {"", "PRIMARY", "OTHER"}

\* ------------------------------------------------------------- state.ts
\* articleId: the first 16 hex digits of the SHA-256 of the URL, here the
\* digest table of the URLs of the model.
articleId(url) == CASE url = "u1" -> "1f3a"
                    [] url = "u2" -> "9c0e"
                    [] OTHER      -> "ffff"

\* The title Readability extracts for a URL.
ArticleTitle(url) == "title:" \o url

\* { seen: {} }
EmptyState == [seen |-> <<>>]

\* The state file: missing, or holding the document of the last save.
NoFile == [kind |-> "missing", content |-> EmptyState]

\* A file that JSON.parse rejects, and a file that parses to a document
\* without a `seen` mapping (here the document {"articles": {}}).
GarbageFile == [kind |-> "garbage", content |-> EmptyState]

MisshapedFile == [kind |-> "ok", content |-> [articles |-> <<>>]]

\* loadState: the parsed document as it is; the empty state when the file
\* is missing or JSON.parse throws.
loadState(f) == IF f.kind = "ok" THEN f.content ELSE EmptyState

\* Object.keys(state.seen) and `id in state.seen` work on the document.
HasSeenMapping(st) == "seen" \in DOMAIN st

saveState(st) == [kind |-> "ok", content |-> st]

SeenNever(st, url) == FALSE

isArticleSeen(st, url) == articleId(url) \in DOMAIN st.seen

\* The record markArticleSeen stores.
SeenArticle(url, metadata, now) ==
  [url |-> url, title |-> metadata.title, source |-> metadata.source,
   contentType |-> metadata.contentType, postedAt |-> now]

MarkDropsOthers(st, url, metadata, now) ==
  [st EXCEPT !.seen = (articleId(url) :> SeenArticle(url, metadata, now))]

markArticleSeen(st, url, metadata, now) ==
  [st EXCEPT !.seen = (articleId(url) :> SeenArticle(url, metadata, now)) @@ @]

isSourceAlerted(st, sourceName) ==
  /\ "alertedSources" \in DOMAIN st
  /\ sourceName \in DOMAIN st.alertedSources

AlertForgetsSeen(st, sourceName, now) ==
  [seen |-> <<>>, alertedSources |-> (sourceName :> now)]

markSourceAlerted(st, sourceName, now) ==
  ("alertedSources" :>
     ((sourceName :> now) @@
      (IF "alertedSources" \in DOMAIN st THEN st.alertedSources ELSE <<>>)))
  @@ st

clearSourceAlert(st, sourceName) ==
  IF "alertedSources" \notin DOMAIN st
  THEN st
  ELSE [st EXCEPT !.alertedSources =
          [n \in (DOMAIN @) \ {sourceName} |-> @[n]]]

SeenIds(st) == DOMAIN st.seen

\* ------------------------------------------------------------ scraper
\* Sequences over S of length at most n.
SeqsUpTo(S, n) == UNION {[1..k -> S] : k \in 0..n}

NoDuplicates(s) == \A i, j \in DOMAIN s : i # j => s[i] # s[j]

\* What the candidate fetch of a source can yield: a list of URLs (a feed
\* may repeat a URL, an index page cannot), a fetch or parse error, or a
\* rejection that reaches the caller: the fetchArticleUrls of part_007
\* lines 910-921 has no catch, the one of lines 1070-1085 turns every
\* error into [].
FetchOutcomes(source) ==
  {[kind |-> "urls", urls |-> l] :
      l \in {s \in SeqsUpTo(source.links, MaxCandidates) :
               source.rssUrl \/ NoDuplicates(s)}}
  \cup {[kind |-> "error", urls |-> <<>>], [kind |-> "throw", urls |-> <<>>]}

\* fetchArticleUrls: an error inside the fetch is logged and becomes [].
fetchArticleUrls(source, outcome) ==
  IF outcome.kind = "urls" THEN outcome.urls ELSE <<>>

\* ------------------------------------------------------- per-article
\* Outcomes of the external calls made for one article.
\*   content   : fetchArticleContent returns or throws
\*   summaries : generateSummaries returns or throws
\*   primary   : the search-augmented research request returns a report,
\*               returns no text, or fails (non-2xx answer or exception)
\*   simple    : the same for the request without search ("none": not made)
\*   post      : which step of postArticleThread fails, if any
\*   images    : image generation is disabled, or what the image request
\*               and the upload would do: work, return an error, throw,
\*               or fail at the upload to Slack
\*   gemini    : config.geminiApiKey is set
ResearchOutcomes ==
  {[primary |-> p, simple |-> "none"] : p \in {"ok", "empty"}}
  \cup {[primary |-> "fail", simple |-> q] : q \in {"ok", "empty", "fail"}}

ArticleOutcomes ==
  {[content |-> "throw", summaries |-> "none", primary |-> "none",
    simple |-> "none", post |-> "none", images |-> "none", gemini |-> FALSE],
   [content |-> "ok", summaries |-> "throw", primary |-> "none",
    simple |-> "none", post |-> "none", images |-> "none", gemini |-> FALSE]}
  \cup {[content |-> "ok", summaries |-> "ok", primary |-> r.primary,
         simple |-> r.simple, post |-> p, images |-> "none",
         gemini |-> FALSE] :
          r \in ResearchOutcomes,
          p \in {"rootFail", "noTs", "reply1Fail", "reply2Fail"}}
  \cup {[content |-> "ok", summaries |-> "ok", primary |-> r.primary,
         simple |-> r.simple, post |-> "ok", images |-> "disabled",
         gemini |-> FALSE] :
          r \in ResearchOutcomes}
  \cup {[content |-> "ok", summaries |-> "ok", primary |-> r.primary,
         simple |-> r.simple, post |-> "ok", images |-> i, gemini |-> g] :
          r \in ResearchOutcomes,
          i \in {"ok", "genError", "genThrow", "uploadFail"},
          g \in BOOLEAN}

\* The outcomes explored inside whole batch runs and manual invocations:
\* every failure of every step, with the research calls either both
\* working or both failing.
RunOutcomes ==
  {o \in ArticleOutcomes :
     \/ o.primary \in {"none", "ok"}
     \/ o.primary = "fail" /\ o.simple = "fail" /\ o.post \in {"ok", "rootFail"}
                           /\ o.images \in {"none", "disabled"}}

\* runSimpleResearch: the text it returns; its catch turns a failed
\* request into the fixed 'Research unavailable' text.
SimpleResearchRaises(simple) ==
  CASE simple = "ok"    -> "simple"
    [] simple = "empty" -> "notGenerated"
    [] OTHER            -> "throw"

runSimpleResearch(simple) ==
  CASE simple = "ok"    -> "simple"
    [] simple = "empty" -> "notGenerated"
    [] OTHER            -> "unavailable"

\* runAgenticResearch: the report, or the fallback's text when the
\* search-augmented request failed.
runAgenticResearch(primary, simple) ==
  CASE primary = "ok"    -> "report"
    [] primary = "empty" -> "notCompleted"
    [] OTHER             -> runSimpleResearch(simple)

\* generateArticleCartoon and generateArticleInfographic of the image
\* generator that index.ts imports both from (part_007:377-433, 680-743):
\* each is `return traced(...)`, and the module neither imports nor defines
\* `traced` (it imports wrapTraced), so every call throws a ReferenceError
\* before any image request is made, whatever that request would do.
generateArticleCartoon(images) == "throw"

generateArticleInfographic(images) == "throw"

\* The image steps that follow a thread handle throw: the infographic when
\* a Gemini key is set, the cartoon otherwise (index.ts:53-86, 22-48; neither
\* helper has a catch).
ImagesThrew(o) ==
  /\ o.post = "ok"
  /\ o.images # "disabled"
  /\ \/ o.gemini /\ generateArticleInfographic(o.images) = "throw"
     \/ generateArticleCartoon(o.images) = "throw"

\* postArticleThread: the thread handle (TRUE) only when the root post and
\* both replies went through; every failure is caught and gives null.
HandleAfterRoot(o) == o.post \in {"ok", "reply1Fail", "reply2Fail"}

postArticleThread(o) == o.post = "ok"

\* The collaborators an article's pipeline reaches under outcome o.
PipelineCalls(o) ==
  {"content"}
  \cup (IF o.content = "ok" THEN {"summarize"} ELSE {})
  \cup (IF o.content = "ok" /\ o.summaries = "ok"
        THEN {"research"} ELSE {})
  \cup (IF o.post # "none" /\ runAgenticResearch(o.primary, o.simple) # "throw"
        THEN {"publish"} ELSE {})

\* The Slack messages an article's pipeline sends under outcome o: thread
\* messages (root post, replies, image replies) once the root call is made.
PipelineSlack(o) == IF "publish" \in PipelineCalls(o) THEN {"thread"} ELSE {}

\* The root post of the thread reached the channel: postArticleThread was
\* called and its first Slack call went through (slack.ts:154-171), whether
\* or not a handle came back and the replies followed.
RootSent(o) ==
  /\ "publish" \in PipelineCalls(o)
  /\ o.post \in {"noTs", "reply1Fail", "reply2Fail", "ok"}

\* Counters over the watched URLs that tell 0, 1 and "two or more" apart.
Bump(n) == IF n < 2 THEN n + 1 ELSE 2

CountAt(c, url) == [u \in DOMAIN c |-> IF u = url THEN Bump(c[u]) ELSE c[u]]

Zeroed(c) == [u \in DOMAIN c |-> 0]

\* postArticleThread was called and returned the thread's handle.
Published(o) == "publish" \in PipelineCalls(o) /\ postArticleThread(o)

\* The catch around the article's pipeline is reached.
ArticleThrew(o) ==
  \/ o.content = "throw"
  \/ o.summaries = "throw"
  \/ (o.primary # "none" /\ runAgenticResearch(o.primary, o.simple) = "throw")
  \/ ImagesThrew(o)

\* seedSource's loop: every candidate not yet seen is marked seen.
RECURSIVE SeedLoop(_, _, _, _)
SeedLoop(st, source, urls, now) ==
  IF urls = <<>> THEN st
  ELSE SeedLoop(
         IF isArticleSeen(st, Head(urls)) THEN st
         ELSE markArticleSeen(st, Head(urls),
                [title |-> "(seeded)", source |-> source.name,
                 contentType |-> source.contentType], now),
         source, Tail(urls), now)

seedSource(source, st, urls, now) ==
  IF Len(urls) = 0 THEN st ELSE SeedLoop(st, source, urls, now)

\* if (threadTs) { currentState = markArticleSeen(currentState, ...) }
MarkAlways(threadTs, st, marked) == marked

MarkIfPosted(threadTs, st, marked) == IF threadTs THEN marked ELSE st

\* articleUrls.filter((url) => !isArticleSeen(state, url))
FilterUnseen(st, urls) == SelectSeq(urls, LAMBDA u : ~isArticleSeen(st, u))

\* ------------------------------------------------------------ variables
VARIABLES
  file,           \* the persisted state file
  pc,             \* "idle" | "source" | "article" | "save" | "manual"
  kind,           \* the current or last invocation: "none" | "batch" | "manual"
  configOk,       \* loadConfig of that invocation succeeded
  seedMode,       \* runScrapeCheck's argument
  state,          \* runScrapeCheck's / processManualUrl's `state`
  srcIdx,         \* index into SOURCES of the source being processed
  currentState,   \* processSource's `currentState`
  newUrls,        \* the unseen URLs processSource has still to process
  processed,      \* runScrapeCheck's counters
  failed,
  mUrl,           \* processManualUrl's arguments
  mContentType,
  mChannelId,
  isPrimaryChannel,
  result,         \* what the last invocation returned
  clock,          \* the wall clock read by new Date(), an input of the
                  \* program: a later reading for every later invocation
                  \* and after every record a batch run makes
  runs,           \* invocations started so far
  \* observations of the calls made
  called,         \* collaborators called by the latest step
  slack,          \* kinds of Slack message sent by the latest step
  saveCalls,      \* saveState calls during the invocation
  srcLog,         \* sources finished in this run, with how they ended
  episode,        \* per source: the current zero-candidate episode
  yielded,        \* what the latest candidate fetch of this run gave:
                  \* "none" | "throw" | "zero" | "some"
  lastArticle,    \* what happened to the article processed last
  allOk,          \* postArticleThread returned a handle for every
                  \* article of this run
  seedShadow,     \* the state a seed run over the same candidates would hold
  manualPosted,   \* URLs a manual invocation published to the primary channel
  priorPosted,    \* the manual URL was in manualPosted when the invocation began
  rootSent,       \* per watched URL: root posts batch runs sent for it
  publishCalls,   \* per watched URL: postArticleThread calls of the
                  \* current batch run (2 stands for two or more)
  \* one article followed call by call (ArticleSpec)
  aIn,            \* the inputs: outcomes of the external calls, batch or
                  \* manual, and the manual invocation's arguments
  aPc,            \* the call the article's pipeline is about to make
  aEvents,        \* the calls made so far, in order
  aHandle,        \* threadTs: "none" before postArticleThread returned,
                  \* then "null" or "ts"
  aThreadTs,      \* postArticleThread's local threadTs: the ts of the root
                  \* message, "undefined" before it and when Slack gave none
  aSlack,         \* the messages of the thread Slack accepted, in order
                  \* (root, replies, image progress messages), each
                  \* with its text, its own ts and the thread_ts it carried
  aState,         \* currentState (batch) or state (manual)
  aResult,        \* what the manual invocation returned
  \* the HTTP server, one request at a time (ServerSpec)
  hConfig,        \* config.webhookSecret and config.slackSigningSecret
  hReq,           \* the request handled last
  hStatus,        \* the status of the response to it
  hStarted,       \* what the handler started in the background
  \* two overlapping invocations on one state file (RaceSpec)
  rPc,            \* per invocation: "idle"; batch: "source" | "article" |
                  \* "save"; manual: "loaded" | "marked" | "rejected"
  rKind,          \* per invocation: "batch" | "seed" | "manual"
  rState,         \* per invocation: its `state`, loaded from the file
  rStarted,       \* invocations started so far
  rEver,          \* article ids ever written to the state file
  rUrl,           \* per invocation: the URL a manual invocation was given
  rIdx,           \* per batch run: index into SOURCES of its current source
  rNew,           \* per batch run: the unseen URLs it has still to process
  rClock,         \* the wall clock of the overlapping invocations
  \* one call of a state operation, on objects in a heap (StateOpsSpec)
  oHeap,          \* the objects: oHeap[r] is the object with reference r
  oBefore,        \* the heap before the call
  oIn,            \* the reference of the `state` argument
  oOp,            \* the operation called and its other argument
  oOut,           \* the reference returned; 0 before the call
  \* one call of generateSummaries (SummarySpec)
  gResponse,      \* the text of the LLM's answer, a sequence of characters
  gOut,           \* <<the SummaryOutputs returned>>; <<>> before the call
  \* the "Thinking" placeholder of one slash command (AnimationSpec)
  nMsg,           \* the text of the placeholder message in Slack
  nInterval,      \* animationInterval: "none" (undefined) | "pending" (a
                  \* timeout is scheduled) | "fired" (the handle of a
                  \* timeout that has run)
  nInflight,      \* the text of the animation update sent and not yet
                  \* applied by Slack: <<>> or <<text>>
  nDots,          \* dotCount
  nPipe,          \* where the manual invocation is
  nPrimary        \* the command was given in the primary channel

vars == <<file, pc, kind, configOk, seedMode, state, srcIdx, currentState,
          newUrls, processed, failed, mUrl, mContentType, mChannelId,
          isPrimaryChannel,
          result, clock, runs, called, slack, saveCalls, srcLog, episode,
          yielded, lastArticle, allOk, seedShadow, manualPosted, priorPosted,
          rootSent, publishCalls,
          aIn, aPc, aEvents, aHandle, aThreadTs, aSlack, aState, aResult,
          hConfig, hReq, hStatus, hStarted,
          rPc, rKind, rState, rStarted, rEver, rUrl, rIdx, rNew, rClock,
          oHeap, oBefore, oIn, oOp, oOut, gResponse, gOut,
          nMsg, nInterval, nInflight, nDots, nPipe, nPrimary>>

\* The variables of a batch run or manual invocation, the state file apart.
runVars == <<pc, kind, configOk, seedMode, state, srcIdx, currentState,
             newUrls, processed, failed, mUrl, mContentType, mChannelId,
             isPrimaryChannel, result, clock, runs, called, slack, saveCalls,
             srcLog, episode, yielded, lastArticle, allOk, seedShadow,
             manualPosted, priorPosted, rootSent, publishCalls>>

\* The variables of the article followed call by call.
articleVars == <<aIn, aPc, aEvents, aHandle, aThreadTs, aSlack, aState,
                aResult>>

\* The variables of the HTTP server.
serverVars == <<hConfig, hReq, hStatus, hStarted>>

\* The variables of the two overlapping invocations.
raceVars == <<rPc, rKind, rState, rStarted, rEver, rUrl, rIdx, rNew,
             rClock>>

\* The variables of the single call of a state operation.
opVars == <<oHeap, oBefore, oIn, oOp, oOut>>

\* The variables of the single call of generateSummaries.
summaryVars == <<gResponse, gOut>>

\* The variables of the placeholder animation.
animVars == <<nMsg, nInterval, nInflight, nDots, nPipe, nPrimary>>

sideVars == <<serverVars, raceVars, opVars, summaryVars, animVars>>

\* The variables that whole runs and invocations leave alone.
stepVars == <<articleVars, sideVars>>

NoEpisode == [runs |-> 0, alerts |-> 0, first |-> FALSE, began |-> 0]
NoArticle == [posted |-> FALSE, threw |-> FALSE, slept |-> FALSE]

\* No article is followed call by call.
NoArticleInput ==
  [o |-> [content |-> "throw", summaries |-> "none", primary |-> "none",
          simple |-> "none", post |-> "none", images |-> "none",
          gemini |-> FALSE],
   mode |-> "batch", channelId |-> "", processingTs |-> FALSE,
   callback |-> FALSE]

ArticleOff ==
  /\ aIn = NoArticleInput
  /\ aPc = "off"
  /\ aEvents = <<>>
  /\ aHandle = "none"
  /\ aThreadTs = "undefined"
  /\ aSlack = <<>>
  /\ aState = EmptyState
  /\ aResult = "none"

\* No invocation has run yet.
RunIdle ==
  /\ pc = "idle"
  /\ kind = "none"
  /\ configOk = FALSE
  /\ seedMode = FALSE
  /\ state = EmptyState
  /\ srcIdx = 0
  /\ currentState = EmptyState
  /\ newUrls = <<>>
  /\ processed = 0
  /\ failed = 0
  /\ mUrl = ""
  /\ mContentType = "technical"
  /\ mChannelId = ""
  /\ isPrimaryChannel = FALSE
  /\ result = "none"
  /\ clock = 0
  /\ runs = 0
  /\ called = {}
  /\ slack = {}
  /\ saveCalls = 0
  /\ srcLog = <<>>
  /\ episode = [n \in SourceNames |-> NoEpisode]
  /\ yielded = "none"
  /\ lastArticle = NoArticle
  /\ allOk = TRUE
  /\ seedShadow = EmptyState
  /\ manualPosted = {}
  /\ priorPosted = FALSE

\* No URL is watched: the posts are not counted.
CountersOff == rootSent = <<>> /\ publishCalls = <<>>

RunInit == file = NoFile /\ RunIdle /\ CountersOff

\* The two invocations that may overlap.
Procs == {1, 2}

\* No request was handled, and nothing was started by one.
NoRequest ==
  [path |-> "none", auth |-> "", seed |-> "", text |-> <<>>,
   timestamp |-> "", signature |-> "", channelId |-> "", thinking |-> FALSE]

NothingStarted ==
  [fn |-> "none", seedMode |-> FALSE, url |-> "", contentType |-> "",
   channelId |-> "", processingTs |-> FALSE]

ServerOff ==
  /\ hConfig = [webhookSecret |-> "", slackSigningSecret |-> ""]
  /\ hReq = NoRequest
  /\ hStatus = 0
  /\ hStarted = NothingStarted

RaceOff ==
  /\ rPc = [p \in Procs |-> "idle"]
  /\ rKind = [p \in Procs |-> "batch"]
  /\ rState = [p \in Procs |-> EmptyState]
  /\ rStarted = 0
  /\ rEver = {}
  /\ rUrl = [p \in Procs |-> ""]
  /\ rIdx = [p \in Procs |-> 0]
  /\ rNew = [p \in Procs |-> <<>>]
  /\ rClock = 0

OpsOff ==
  /\ oHeap = <<>>
  /\ oBefore = <<>>
  /\ oIn = 0
  /\ oOp = [name |-> "none", arg |-> "", now |-> 0]
  /\ oOut = 0

SummaryOff == gResponse = <<>> /\ gOut = <<>>

AnimOff ==
  /\ nMsg = "none"
  /\ nInterval = "none"
  /\ nInflight = <<>>
  /\ nDots = 1
  /\ nPipe = "off"
  /\ nPrimary = FALSE

SideOff == ServerOff /\ RaceOff /\ OpsOff /\ SummaryOff /\ AnimOff

Init == RunInit /\ ArticleOff /\ SideOff

\* ------------------------------------------------------ runScrapeCheck
\* Where the per-source loop goes after a source returned: on to the next
\* source, and past the last one to the single saveState call.
SkipSaveAfterLast(idx) == IF idx < Len(SOURCES) THEN "source" ELSE "idle"

AfterSourceReturned(idx) == IF idx < Len(SOURCES) THEN "source" ELSE "save"

\* Where the loop goes after the per-source catch: the same place.
RethrowAfterCatch(idx) == "idle"

AfterSourceThrew(idx) == IF idx < Len(SOURCES) THEN "source" ELSE "save"

\* The scraper-error notice of the per-source catch, sent outside seed mode.
ErrorNoticeAlways(seed) == {"error"}

ErrorNotice(seed) == IF ~seed THEN {"error"} ELSE {}

\* targetChannel = channelId || config.slackChannelId;
\* isPrimaryChannel = targetChannel === config.slackChannelId
AlwaysPrimary(channelId) == TRUE

IsPrimaryChannel(channelId) ==
  (IF channelId # "" THEN channelId ELSE PrimaryChannelId) = PrimaryChannelId

\* The locals of an invocation that has returned.
ResetLocals ==
  /\ state' = EmptyState
  /\ srcIdx' = 0
  /\ currentState' = EmptyState
  /\ newUrls' = <<>>

\* runScrapeCheck up to the per-source loop: loadConfig, loadState.
StartRun(seed, ok) ==
  /\ pc = "idle"
  /\ runs < MaxRuns
  /\ runs' = runs + 1
  /\ kind' = "batch"
  /\ seedMode' = seed
  /\ configOk' = ok
  /\ called' = {}
  /\ slack' = {}
  /\ saveCalls' = 0
  /\ srcLog' = <<>>
  /\ yielded' = "none"
  /\ lastArticle' = NoArticle
  /\ allOk' = TRUE
  /\ processed' = 0
  /\ failed' = 0
  /\ mUrl' = ""
  /\ mContentType' = "technical"
  /\ mChannelId' = ""
  /\ isPrimaryChannel' = FALSE
  /\ priorPosted' = FALSE
  /\ IF ~ok
     THEN /\ ResetLocals
          /\ seedShadow' = EmptyState
          /\ pc' = "idle"
          /\ result' = "Configuration error"
     ELSE IF ~HasSeenMapping(loadState(file))
     THEN \* line 356: Object.keys(state.seen) throws, the run rejects
          /\ ResetLocals
          /\ seedShadow' = EmptyState
          /\ pc' = "idle"
          /\ result' = "TypeError"
     ELSE /\ state' = loadState(file)
          /\ seedShadow' = loadState(file)
          /\ srcIdx' = 1
          /\ pc' = "source"
          /\ result' = "running"
          /\ UNCHANGED <<currentState, newUrls>>
  /\ clock' = clock + 1
  /\ publishCalls' = Zeroed(publishCalls)
  /\ UNCHANGED <<file, episode, manualPosted, rootSent, stepVars>>

\* Lines 366-368: the source returned newState.
SourceReturned(newState, ep) ==
  /\ processed' = processed
                  + (Cardinality(SeenIds(newState)) - Cardinality(SeenIds(state)))
  /\ state' = newState
  /\ srcLog' = Append(srcLog, [name |-> SOURCES[srcIdx].name, threw |-> FALSE])
  /\ srcIdx' = srcIdx + 1
  /\ pc' = AfterSourceReturned(srcIdx)
  /\ currentState' = EmptyState
  /\ newUrls' = <<>>
  /\ episode' = ep
  /\ UNCHANGED failed

\* Lines 369-375: the per-source catch.  `state = newState` (line 367) was
\* not reached, so the loop goes on with the state it had before the source.
SourceThrewUncounted ==
  /\ slack' = ErrorNotice(seedMode)
  /\ srcLog' = Append(srcLog, [name |-> SOURCES[srcIdx].name, threw |-> TRUE])
  /\ srcIdx' = srcIdx + 1
  /\ pc' = AfterSourceThrew(srcIdx)
  /\ UNCHANGED <<state, processed, failed, currentState, newUrls, episode,
                 seedShadow>>

SourceThrew ==
  /\ failed' = failed + 1
  /\ slack' = ErrorNotice(seedMode)
  /\ srcLog' = Append(srcLog, [name |-> SOURCES[srcIdx].name, threw |-> TRUE])
  /\ srcIdx' = srcIdx + 1
  /\ pc' = AfterSourceThrew(srcIdx)
  /\ UNCHANGED <<state, processed, currentState, newUrls, episode,
                 seedShadow>>

\* The episode of a source after a normal run in which it yielded nothing:
\* `runs` counts the consecutive zero-candidate runs (2 stands for two or
\* more), `alerts` the alerts that reached the channel in them, `first`
\* tells that the first of them sent one, `began` counts the source's
\* episodes so far (2 stands for two or more).
ZeroRun(ep, alertSent) ==
  IF ep.runs = 0
  THEN [runs |-> 1, alerts |-> IF alertSent THEN 1 ELSE 0,
        first |-> alertSent, began |-> Bump(ep.began)]
  ELSE [ep EXCEPT !.runs = 2,
                  !.alerts = IF alertSent THEN @ + 1 ELSE @]

\* The episode of a source is over: a normal run found candidates.
EpisodeOver(ep) == [NoEpisode EXCEPT !.began = ep.began]

\* seedSource(source, state) as called from the loop.
SeedStep(source, outcome) ==
  IF outcome.kind = "throw"
  THEN SourceThrew
  ELSE LET urls == fetchArticleUrls(source, outcome) IN
       /\ SourceReturned(seedSource(source, state, urls, clock), episode)
       /\ seedShadow' = IF allOk THEN seedSource(source, seedShadow, urls, 0)
                       ELSE EmptyState
       /\ slack' = {}

\* sendMessage (slack.ts:238-250): the message, or the failure that its
\* catch logs; it returns normally either way.
sendMessage(what, delivered) ==
  IF delivered THEN {what} ELSE {what \o ":failed"}

\* processSource(source, state) up to its per-article loop; `delivered`
\* tells whether Slack accepts the scraper alert, if one is sent.
ProcessStep(source, outcome, delivered) ==
  IF outcome.kind = "throw"
  THEN SourceThrew
  ELSE LET urls == fetchArticleUrls(source, outcome)
           ep   == episode[source.name]
       IN
       /\ seedShadow' = IF allOk THEN seedSource(source, seedShadow, urls, 0)
                       ELSE EmptyState
       /\ IF Len(urls) = 0
          THEN IF ~isSourceAlerted(state, source.name)
               THEN /\ slack' = sendMessage("alert", delivered)
                    /\ SourceReturned(
                         markSourceAlerted(state, source.name, clock),
                         [episode EXCEPT ![source.name] =
                            ZeroRun(ep, sendMessage("alert", delivered)
                                        = {"alert"})])
               ELSE /\ SourceReturned(state,
                         [episode EXCEPT ![source.name] = ZeroRun(ep, FALSE)])
                    /\ slack' = {}
          ELSE LET st == IF isSourceAlerted(state, source.name)
                         THEN clearSourceAlert(state, source.name)
                         ELSE state
                   unseen == FilterUnseen(st, urls)
                   ep2 == [episode EXCEPT ![source.name] = EpisodeOver(ep)]
               IN
               /\ slack' = {}
               /\ IF Len(unseen) = 0
                  THEN SourceReturned(st, ep2)
                  ELSE /\ currentState' = st
                       /\ newUrls' = unseen
                       /\ pc' = "article"
                       /\ episode' = ep2
                       /\ UNCHANGED <<state, srcIdx, processed, failed, srcLog>>

\* One iteration of the per-source loop, up to the first article.
FetchUrls ==
  /\ pc = "source"
  /\ \E outcome \in FetchOutcomes(SOURCES[srcIdx]), delivered \in BOOLEAN :
       /\ IF seedMode
          THEN SeedStep(SOURCES[srcIdx], outcome)
          ELSE ProcessStep(SOURCES[srcIdx], outcome, delivered)
       /\ yielded' = IF outcome.kind = "throw" THEN "throw"
                     ELSE IF Len(fetchArticleUrls(SOURCES[srcIdx], outcome)) = 0
                          THEN "zero" ELSE "some"
  /\ called' = {"urls"}
  /\ lastArticle' = NoArticle
  /\ UNCHANGED <<file, kind, configOk, seedMode, mUrl, mContentType,
                 mChannelId, isPrimaryChannel, result, runs, saveCalls,
                 allOk, manualPosted, priorPosted, clock, rootSent,
                 publishCalls, stepVars>>

\* One iteration of processSource's per-article loop (lines 145-218).
Article ==
  /\ pc = "article"
  /\ \E o \in RunOutcomes :
       LET url    == Head(newUrls)
           source == SOURCES[srcIdx]
           posted == ~ArticleThrew(o) /\ postArticleThread(o)
           next   == MarkIfPosted(posted, currentState,
                       markArticleSeen(currentState, url,
                         [title |-> ArticleTitle(url), source |-> source.name,
                          contentType |-> source.contentType], clock))
       IN
       /\ called' = PipelineCalls(o)
       /\ slack' = PipelineSlack(o)
       /\ lastArticle' = [posted |-> posted,
                          threw |-> ArticleThrew(o),
                          slept |-> ~ArticleThrew(o)]
       /\ allOk' = (allOk /\ Published(o))
       /\ seedShadow' = IF allOk /\ Published(o) THEN seedShadow
                       ELSE EmptyState
       /\ clock' = IF posted THEN clock + 1 ELSE clock
       /\ publishCalls' = IF "publish" \in PipelineCalls(o)
                          THEN CountAt(publishCalls, url) ELSE publishCalls
       /\ rootSent' = IF RootSent(o) THEN CountAt(rootSent, url) ELSE rootSent
       /\ IF Len(newUrls) > 1
          THEN /\ currentState' = next
               /\ newUrls' = Tail(newUrls)
               /\ UNCHANGED <<pc, state, srcIdx, processed, failed, srcLog,
                              episode>>
          ELSE SourceReturned(next, episode)
  /\ UNCHANGED <<file, kind, configOk, seedMode, mUrl, mContentType,
                 mChannelId, isPrimaryChannel, result, runs, saveCalls,
                 manualPosted, priorPosted, yielded, stepVars>>

\* Line 378: the run's single saveState, then the run returns.
Save ==
  /\ pc = "save"
  /\ file' = saveState(state)
  /\ saveCalls' = saveCalls + 1
  /\ result' = "done"
  /\ pc' = "idle"
  /\ ResetLocals
  /\ called' = {}
  /\ slack' = {}
  /\ yielded' = "none"
  /\ lastArticle' = NoArticle
  /\ publishCalls' = Zeroed(publishCalls)
  /\ UNCHANGED <<kind, configOk, seedMode, processed, failed, mUrl,
                 mContentType, mChannelId, isPrimaryChannel, clock, runs,
                 srcLog, episode, allOk, seedShadow, manualPosted,
                 priorPosted, rootSent, stepVars>>

\* ---------------------------------------------------- processManualUrl
\* processManualUrl up to its try block: loadConfig, loadState, seen check.
ManualStart(url, contentType, channelId, ok) ==
  /\ pc = "idle"
  /\ runs < MaxRuns
  /\ runs' = runs + 1
  /\ kind' = "manual"
  /\ seedMode' = FALSE
  /\ configOk' = ok
  /\ called' = {}
  /\ slack' = {}
  /\ saveCalls' = 0
  /\ srcLog' = <<>>
  /\ yielded' = "none"
  /\ lastArticle' = NoArticle
  /\ allOk' = TRUE
  /\ processed' = 0
  /\ failed' = 0
  /\ seedShadow' = EmptyState
  /\ mUrl' = url
  /\ mContentType' = contentType
  /\ mChannelId' = channelId
  /\ priorPosted' = (url \in manualPosted)
  /\ srcIdx' = 0
  /\ currentState' = EmptyState
  /\ newUrls' = <<>>
  /\ IF ~ok
     THEN /\ isPrimaryChannel' = FALSE
          /\ state' = EmptyState
          /\ result' = "Configuration error"
          /\ pc' = "idle"
     ELSE /\ isPrimaryChannel' = IsPrimaryChannel(channelId)
          /\ IF IsPrimaryChannel(channelId) /\ ~HasSeenMapping(loadState(file))
             THEN \* line 257: `id in state.seen` throws outside the try
                  /\ state' = EmptyState
                  /\ result' = "TypeError"
                  /\ pc' = "idle"
             ELSE IF IsPrimaryChannel(channelId)
                     /\ isArticleSeen(loadState(file), url)
             THEN /\ state' = EmptyState
                  /\ result' = "Article already processed"
                  /\ pc' = "idle"
             ELSE /\ state' = loadState(file)
                  /\ result' = "running"
                  /\ pc' = "manual"
  /\ clock' = clock + 1
  /\ publishCalls' = Zeroed(publishCalls)
  /\ UNCHANGED <<file, episode, manualPosted, rootSent, stepVars>>

\* The try block of processManualUrl (lines 261-333).
ManualPipeline ==
  /\ pc = "manual"
  /\ \E o \in RunOutcomes :
       LET posted == ~ArticleThrew(o) /\ postArticleThread(o)
           commit == posted /\ isPrimaryChannel
           next   == markArticleSeen(state, mUrl,
                       [title |-> ArticleTitle(mUrl), source |-> "Manual",
                        contentType |-> mContentType], clock)
       IN
       /\ called' = PipelineCalls(o)
       /\ slack' = PipelineSlack(o)
       /\ lastArticle' = [posted |-> posted,
                          threw |-> ArticleThrew(o), slept |-> FALSE]
       /\ allOk' = Published(o)
       /\ result' = IF ArticleThrew(o) THEN "Failed to fetch article"
                    ELSE IF posted THEN "Posted"
                    ELSE "Failed to post to Slack"
       /\ manualPosted' = IF Published(o) /\ isPrimaryChannel
                          THEN manualPosted \cup {mUrl} ELSE manualPosted
       /\ IF commit
          THEN /\ file' = saveState(next)
               /\ saveCalls' = saveCalls + 1
          ELSE UNCHANGED <<file, saveCalls>>
  /\ pc' = "idle"
  /\ ResetLocals
  /\ UNCHANGED <<kind, configOk, seedMode, processed, failed, mUrl,
                 mContentType, mChannelId, isPrimaryChannel, runs, srcLog,
                 episode, seedShadow, priorPosted, clock, yielded, rootSent,
                 publishCalls, stepVars>>

Next ==
  \/ \E seed \in BOOLEAN, ok \in BOOLEAN : StartRun(seed, ok)
  \/ FetchUrls
  \/ Article
  \/ Save
  \/ \E url \in URLs, contentType \in ContentTypes,
        channelId \in ChannelArgs, ok \in BOOLEAN :
       ManualStart(url, contentType, channelId, ok)
  \/ ManualPipeline

Spec == Init /\ [][Next]_vars

\* The same program started on a state file it did not write: missing,
\* unparsable, or parsable without a `seen` mapping.
BadFileInit ==
  /\ RunIdle
  /\ CountersOff
  /\ file \in {NoFile, GarbageFile, MisshapedFile}
  /\ ArticleOff
  /\ SideOff

BadFileNext ==
  \/ \E seed \in BOOLEAN, ok \in BOOLEAN :
       runs < MaxBadFileRuns /\ StartRun(seed, ok)
  \/ FetchUrls
  \/ Article
  \/ Save
  \/ \E url \in URLs, contentType \in ContentTypes,
        channelId \in ChannelArgs, ok \in BOOLEAN :
       runs < MaxBadFileRuns /\ ManualStart(url, contentType, channelId, ok)
  \/ ManualPipeline

BadFileSpec == BadFileInit /\ [][BadFileNext]_vars

\* Normal batch runs only, one after the other on the same state file, with
\* the posts of every URL counted.
BatchInit ==
  /\ file = NoFile
  /\ RunIdle
  /\ rootSent = [u \in URLs |-> 0]
  /\ publishCalls = [u \in URLs |-> 0]
  /\ ArticleOff
  /\ SideOff

BatchNext ==
  \/ \E ok \in BOOLEAN : runs < MaxBatchRuns /\ StartRun(FALSE, ok)
  \/ FetchUrls
  \/ Article
  \/ Save

BatchSpec == BatchInit /\ [][BatchNext]_vars

\* ------------------------------------------- one article, call by call
\* The body of processSource's per-article loop (index.ts:146-217) and the
\* try block of processManualUrl (index.ts:261-333), with postArticleThread
\* (slack.ts:122-233) inlined, one external call per step.

\* The article followed, and the source of it in a batch run.
ArticleUrl == "u1"

ArticleSource == SOURCES[1]

ArticleInputs ==
  {[o |-> o, mode |-> "batch", channelId |-> "", processingTs |-> FALSE,
    callback |-> FALSE] : o \in ArticleOutcomes}
  \cup {i \in [o : ArticleOutcomes, mode : {"manual"}, channelId : ChannelArgs,
               processingTs : BOOLEAN, callback : BOOLEAN] :
          ~(i.processingTs /\ i.o.post = "noTs")}

ArticleInit ==
  /\ RunInit
  /\ SideOff
  /\ aIn \in ArticleInputs
  /\ aPc = "content"
  /\ aEvents = <<>>
  /\ aHandle = "none"
  /\ aThreadTs = "undefined"
  /\ aSlack = <<>>
  /\ aState = EmptyState
  /\ aResult = "none"

\* The two thread replies of postArticleThread, in the order it sends them.
RepliesSwapped == <<"scoop", "eli5">>

ThreadReplies == <<"eli5", "scoop">>

\* What follows a non-null handle: the manual path signals its caller
\* first, the batch path goes straight to the images.
ImagesBeforeCallback(mode) == "images"

StepAfterHandle(mode) == IF mode = "manual" THEN "callback" ELSE "images"

\* A step that appends event e and moves to next.
Emit(e, next) ==
  /\ aEvents' = Append(aEvents, e)
  /\ aPc' = next

\* postArticleThread returns to its caller.
Returned(e) ==
  /\ Emit(e, "returned")
  /\ aHandle' = IF postArticleThread(aIn.o) THEN "ts" ELSE "null"

AFetchContent ==
  /\ aPc = "content"
  /\ Emit("content", IF aIn.o.content = "throw" THEN "catch" ELSE "summarize")
  /\ UNCHANGED <<file, runVars, sideVars, aIn, aThreadTs, aSlack, aHandle,
                 aState, aResult>>

ASummarize ==
  /\ aPc = "summarize"
  /\ Emit("summarize", IF aIn.o.summaries = "throw" THEN "catch" ELSE "research")
  /\ UNCHANGED <<file, runVars, sideVars, aIn, aThreadTs, aSlack, aHandle,
                 aState, aResult>>

AResearch ==
  /\ aPc = "research"
  /\ LET text == runAgenticResearch(aIn.o.primary, aIn.o.simple) IN
       Emit("research:" \o text, IF text = "throw" THEN "catch" ELSE "root")
  /\ UNCHANGED <<file, runVars, sideVars, aIn, aThreadTs, aSlack, aHandle,
                 aState, aResult>>

\* The ts under which the root message stands: the processing message's
\* when one was passed (chat.update, slack.ts:157-163), else the ts of the
\* answer to chat.postMessage (slack.ts:165-170), which may be missing.
RootTs(in) ==
  IF in.processingTs THEN "processingTs"
  ELSE IF in.o.post = "noTs" THEN "undefined" ELSE "rootTs"

\* Slack accepted a message of the thread.
Accepted(text, ts, threadTs) ==
  aSlack' = Append(aSlack, [text |-> text, ts |-> ts, thread_ts |-> threadTs])

\* The root message: chat.update of the processing message when one was
\* passed, chat.postMessage otherwise; it carries no thread_ts.
ARootPost ==
  /\ aPc = "root"
  /\ IF aIn.o.post = "rootFail"
     THEN /\ Returned("root:failed")
          /\ UNCHANGED <<aThreadTs, aSlack>>
     ELSE /\ Accepted("root", RootTs(aIn), "none")
          /\ aThreadTs' = RootTs(aIn)
          /\ IF RootTs(aIn) = "undefined" THEN Returned("root:nots")
             ELSE /\ Emit("root", "reply1")
                  /\ UNCHANGED aHandle
  /\ UNCHANGED <<file, runVars, sideVars, aIn, aState, aResult>>

\* Reply 1, chat.postMessage with thread_ts: threadTs (slack.ts:177-199).
AFirstReply ==
  /\ aPc = "reply1"
  /\ IF aIn.o.post = "reply1Fail"
     THEN /\ Returned(ThreadReplies[1] \o ":failed")
          /\ UNCHANGED aSlack
     ELSE /\ Accepted(ThreadReplies[1], "reply1Ts", aThreadTs)
          /\ Emit(ThreadReplies[1], "reply2")
          /\ UNCHANGED aHandle
  /\ UNCHANGED <<file, runVars, sideVars, aIn, aThreadTs, aState, aResult>>

\* Reply 2, chat.postMessage with thread_ts: threadTs (slack.ts:201-228),
\* then return threadTs.
ASecondReply ==
  /\ aPc = "reply2"
  /\ IF aIn.o.post = "reply2Fail"
     THEN /\ Returned(ThreadReplies[2] \o ":failed")
          /\ UNCHANGED aSlack
     ELSE /\ Accepted(ThreadReplies[2], "reply2Ts", aThreadTs)
          /\ Returned(ThreadReplies[2])
  /\ UNCHANGED <<file, runVars, sideVars, aIn, aThreadTs, aState, aResult>>

\* if (threadTs) ... else ...
AAfterPublish ==
  /\ aPc = "returned"
  /\ IF aHandle = "ts"
     THEN /\ aPc' = StepAfterHandle(aIn.mode)
          /\ UNCHANGED <<aEvents, aResult>>
     ELSE IF aIn.mode = "batch"
          THEN /\ aPc' = "sleep"
               /\ UNCHANGED <<aEvents, aResult>>
          ELSE /\ aPc' = "done"
               /\ aResult' = "Failed to post to Slack"
               /\ UNCHANGED aEvents
  /\ UNCHANGED <<file, runVars, sideVars, aIn, aThreadTs, aSlack, aHandle, aState>>

\* onArticlePosted?.()
ACallback ==
  /\ aPc = "callback"
  /\ IF aIn.callback THEN Emit("callback", "images")
     ELSE aPc' = "images" /\ UNCHANGED aEvents
  /\ UNCHANGED <<file, runVars, sideVars, aIn, aThreadTs, aSlack, aHandle,
                 aState, aResult>>

\* if (config.imageGenEnabled): generateAndPostInfographic, which returns
\* at once without a Gemini key and otherwise posts its progress message
\* into the thread (postThreadMessage, thread_ts: threadTs).
AInfographic ==
  /\ aPc = "images"
  /\ IF aIn.o.images = "disabled"
     THEN aPc' = "mark" /\ UNCHANGED <<aEvents, aSlack>>
     ELSE IF ~aIn.o.gemini
     THEN aPc' = "cartoon" /\ UNCHANGED <<aEvents, aSlack>>
     ELSE /\ Accepted("infographic:progress", "infographic:progressTs",
                      aThreadTs)
          /\ Emit("infographic:progress", "infographicGen")
  /\ UNCHANGED <<file, runVars, sideVars, aIn, aThreadTs, aHandle, aState,
                 aResult>>

\* await generateArticleInfographic(...), then the progress message is
\* deleted and the picture posted; a failure result is only logged.
AInfographicGen ==
  /\ aPc = "infographicGen"
  /\ LET r == generateArticleInfographic(aIn.o.images) IN
       IF r = "throw" THEN Emit("infographic:throw", "catch")
       ELSE Emit(IF r # "success" THEN "infographic:" \o r
                 ELSE IF aIn.o.images = "uploadFail"
                      THEN "infographic:notUploaded"
                 ELSE "infographic",
                 "cartoon")
  /\ UNCHANGED <<file, runVars, sideVars, aIn, aThreadTs, aSlack, aHandle,
                 aState, aResult>>

\* generateAndPostCartoon: its progress message, posted into the thread
\* (postThreadMessage, thread_ts: threadTs).
ACartoon ==
  /\ aPc = "cartoon"
  /\ Accepted("cartoon:progress", "cartoon:progressTs", aThreadTs)
  /\ Emit("cartoon:progress", "cartoonGen")
  /\ UNCHANGED <<file, runVars, sideVars, aIn, aThreadTs, aHandle, aState,
                 aResult>>

\* await generateArticleCartoon(...), then the progress message is deleted
\* and the picture, or the error notice, is posted in the thread.
ACartoonGen ==
  /\ aPc = "cartoonGen"
  /\ LET r == generateArticleCartoon(aIn.o.images) IN
       IF r = "throw" THEN Emit("cartoon:throw", "catch")
       ELSE Emit(IF r # "success" THEN "cartoon:" \o r
                 ELSE IF aIn.o.images = "uploadFail" THEN "cartoon:notUploaded"
                 ELSE "cartoon",
                 "mark")
  /\ UNCHANGED <<file, runVars, sideVars, aIn, aThreadTs, aSlack, aHandle,
                 aState, aResult>>

AMark ==
  /\ aPc = "mark"
  /\ IF aIn.mode = "batch"
     THEN /\ aState' = markArticleSeen(aState, ArticleUrl,
                         [title |-> ArticleTitle(ArticleUrl),
                          source |-> ArticleSource.name,
                          contentType |-> ArticleSource.contentType], clock)
          /\ Emit("mark", "sleep")
          /\ UNCHANGED aResult
     ELSE IF IsPrimaryChannel(aIn.channelId)
          THEN /\ aState' = markArticleSeen(aState, ArticleUrl,
                              [title |-> ArticleTitle(ArticleUrl),
                               source |-> "Manual",
                               contentType |-> "technical"], clock)
               /\ Emit("mark", "save")
               /\ UNCHANGED aResult
          ELSE /\ aPc' = "done"
               /\ aResult' = "Posted"
               /\ UNCHANGED <<aState, aEvents>>
  /\ UNCHANGED <<file, runVars, sideVars, aIn, aThreadTs, aSlack, aHandle>>

ASave ==
  /\ aPc = "save"
  /\ file' = saveState(aState)
  /\ Emit("save", "done")
  /\ aResult' = "Posted"
  /\ UNCHANGED <<runVars, sideVars, aIn, aThreadTs, aSlack, aHandle, aState>>

\* await sleep(DELAY_BETWEEN_ARTICLES), then the next URL.
ASleep ==
  /\ aPc = "sleep"
  /\ Emit("sleep", "done")
  /\ aResult' = "next"
  /\ UNCHANGED <<file, runVars, sideVars, aIn, aThreadTs, aSlack, aHandle, aState>>

ACatch ==
  /\ aPc = "catch"
  /\ Emit("caught", "done")
  /\ aResult' = IF aIn.mode = "batch" THEN "next" ELSE "Failed to fetch article"
  /\ UNCHANGED <<file, runVars, sideVars, aIn, aThreadTs, aSlack, aHandle, aState>>

ArticleNext ==
  \/ AFetchContent
  \/ ASummarize
  \/ AResearch
  \/ ARootPost
  \/ AFirstReply
  \/ ASecondReply
  \/ AAfterPublish
  \/ ACallback
  \/ AInfographic
  \/ AInfographicGen
  \/ ACartoon
  \/ ACartoonGen
  \/ AMark
  \/ ASave
  \/ ASleep
  \/ ACatch

ArticleSpec == ArticleInit /\ [][ArticleNext]_vars

\* ----------------------------------------------------------- HTTP server
\* The fetch handler of the server (summarizer.ts:363-555): the /cron
\* endpoint and the slash-command endpoint.  A request is an input; the
\* handler answers it and may start a batch run or a manual invocation in
\* the background.

\* The words a slash command's text is made of: a plain URL, the same URL in
\* Slack's link syntax without and with a label, a user mention, the
\* classification keyword, a word that is no URL, and a word that starts
\* with "http" without being a URL.
PlainUrl == "https://a.example/post"

LinkBare == "<https://a.example/post>"

LinkLabel == "<https://a.example/post|a.example>"

Mention == "<@U1>"

Words == {PlainUrl, LinkBare, LinkLabel, Mention, "announcement", "pls",
          "httpx"}

\* payload.text.trim(), as its whitespace-separated words.
Texts == SeqsUpTo(Words, MaxWords)

\* The secrets the server may be configured with (sources.ts:160-161).
ServerConfigs ==
  [webhookSecret : {"", "s3"}, slackSigningSecret : {"", "sign"}]

\* 'v0=' + createHmac('sha256', signingSecret).update(`v0:${timestamp}:${body}`)
\* for the request at hand, a forgery of the same length, and no header.
ValidSignature == "v0=mac"

Signatures == {ValidSignature, "v0=bad", ""}

\* X-Slack-Request-Timestamp: within five minutes, older, or no header.
Timestamps == {"fresh", "old", ""}

SignatureLength(signature) == IF signature = "" THEN 0 ELSE 6

\* parseInt(timestamp, 10) < fiveMinutesAgo: false for NaN.
TooOld(timestamp) == timestamp = "old"

VerifyFreshOnly(timestamp, signature, signingSecret) ==
  signingSecret = "" \/ ~TooOld(timestamp)

\* verifySlackSignature (summarizer.ts:272-295); timingSafeEqual throws on
\* buffers of different lengths, and the catch returns false.
verifySlackSignature(timestamp, signature, signingSecret) ==
  IF signingSecret = "" THEN TRUE
  ELSE IF TooOld(timestamp) THEN FALSE
  ELSE IF SignatureLength(signature) # SignatureLength(ValidSignature)
  THEN FALSE
  ELSE signature = ValidSignature

\* config.webhookSecret && authHeader !== `Bearer ${config.webhookSecret}`,
\* negated.
CronAuthorized(webhookSecret, authHeader) ==
  webhookSecret = "" \/ authHeader = "Bearer " \o webhookSecret

\* /<([^|>]+)(?:\|[^>]+)?>/ matches the word, and its first group.
IsLink(w) == w \in {LinkBare, LinkLabel, Mention}

LinkTarget(w) == IF w = Mention THEN "@U1" ELSE PlainUrl

\* /https?:\/\/[^\s]+/ matches in the word (a word without '<').
HasUrl(w) == w = PlainUrl

\* String.prototype.startsWith('http').
StartsWithHttp(w) == w \in {PlainUrl, "httpx"}

\* The leftmost match: the first word of the text that is a link, and the
\* first that holds a URL.
FirstLink(text) ==
  text[CHOOSE i \in 1..Len(text) :
         IsLink(text[i]) /\ \A j \in 1..(i - 1) : ~IsLink(text[j])]

FirstUrl(text) ==
  text[CHOOSE i \in 1..Len(text) :
         HasUrl(text[i]) /\ \A j \in 1..(i - 1) : ~HasUrl(text[j])]

\* summarizer.ts:449-460: the text is replaced by the target of its first
\* link, else by its first URL, else kept.
ExtractUrl(text) ==
  IF \E i \in 1..Len(text) : IsLink(text[i])
  THEN <<LinkTarget(FirstLink(text))>>
  ELSE IF \E i \in 1..Len(text) : HasUrl(text[i])
  THEN <<FirstUrl(text)>>
  ELSE text

\* !articleUrl || !articleUrl.startsWith('http'), negated.
ValidUrl(articleUrl) == articleUrl # <<>> /\ StartsWithHttp(articleUrl[1])

\* parts[1] === 'announcement' ? 'announcement' : 'technical'
ParseContentType(parts) ==
  IF Len(parts) >= 2 /\ parts[2] = "announcement"
  THEN "announcement" ELSE "technical"

Requests ==
  [path : {"/cron"}, auth : {"none", "Bearer s3", "Bearer zz", "s3"},
   seed : {"none", "true", "false"}, text : {<<>>}, timestamp : {""},
   signature : {""}, channelId : {""}, thinking : {FALSE}]
  \cup
  [path : {"/slack/commands"}, auth : {"none"}, seed : {"none"},
   text : Texts, timestamp : Timestamps, signature : Signatures,
   channelId : ChannelArgs \ {""}, thinking : BOOLEAN]

ServerInit ==
  /\ RunInit
  /\ ArticleOff
  /\ RaceOff
  /\ OpsOff
  /\ SummaryOff
  /\ AnimOff
  /\ hConfig \in ServerConfigs
  /\ hReq \in Requests
  /\ hStatus = 0
  /\ hStarted = NothingStarted

\* GET /cron (summarizer.ts:383-406): runScrapeCheck is started, not awaited.
HandleCron ==
  /\ hStatus = 0
  /\ hReq.path = "/cron"
  /\ IF ~CronAuthorized(hConfig.webhookSecret, hReq.auth)
     THEN /\ hStatus' = 401
          /\ UNCHANGED hStarted
     ELSE /\ hStatus' = 200
          /\ hStarted' = [NothingStarted EXCEPT
                            !.fn = "runScrapeCheck",
                            !.seedMode = (hReq.seed = "true")]
  /\ UNCHANGED <<file, runVars, articleVars, raceVars, opVars, summaryVars, animVars,
                 hConfig, hReq>>

\* POST /slack/commands (summarizer.ts:438-553): the handler sends the
\* "Thinking." post without awaiting it and answers 200; nothing else is
\* started yet.  The arguments of the later start are in the closure.
HandleSlash ==
  /\ hStatus = 0
  /\ hReq.path = "/slack/commands"
  /\ IF ~verifySlackSignature(hReq.timestamp, hReq.signature,
                              hConfig.slackSigningSecret)
     THEN /\ hStatus' = 401
          /\ UNCHANGED hStarted
     ELSE LET articleUrl == ExtractUrl(hReq.text) IN
          /\ hStatus' = 200
          /\ IF ~ValidUrl(articleUrl)
             THEN UNCHANGED hStarted
             ELSE hStarted' = [NothingStarted EXCEPT
                                 !.fn = "chat.postMessage",
                                 !.url = articleUrl[1],
                                 !.contentType = ParseContentType(articleUrl),
                                 !.channelId = hReq.channelId]
  /\ UNCHANGED <<file, runVars, articleVars, raceVars, opVars, summaryVars, animVars,
                 hConfig, hReq>>

\* Slack answered the "Thinking." post, after the response was returned
\* (summarizer.ts:516-549): the .then starts processManualUrl with the
\* message's ts; if the post was rejected the chain goes to its catch,
\* which reports through the response_url, and processManualUrl is never
\* started.
ThinkingAnswered ==
  /\ hStatus = 200
  /\ hStarted.fn = "chat.postMessage"
  /\ hStarted' = IF hReq.thinking
                 THEN [hStarted EXCEPT !.fn = "processManualUrl",
                                       !.processingTs = TRUE]
                 ELSE [NothingStarted EXCEPT !.fn = "sendSlackResponse"]
  /\ UNCHANGED <<file, runVars, articleVars, raceVars, opVars, summaryVars, animVars,
                 hConfig, hReq, hStatus>>

ServerNext == HandleCron \/ HandleSlash \/ ThinkingAnswered

ServerSpec == ServerInit /\ [][ServerNext]_vars

\* ------------------------------------------- overlapping invocations
\* The /cron handler starts runScrapeCheck without awaiting it
\* (summarizer.ts:390-400) and the slash handler starts processManualUrl
\* from the .then of its "Thinking." post (summarizer.ts:516-526), so two
\* invocations may interleave at their awaits.
\* Each one loads the state file once (index.ts:355, 254), works on its own
\* in-memory state, and writes that state back (index.ts:378, 318-319).
\* Each invocation is followed through what changes its state: the load,
\* the alert latch, the marks of its sources' articles, the save.  The two
\* invocations may overlap or follow each other.

\* The document an invocation's save leaves in the file, given its own
\* in-memory state and the document on disk: saveState writes the former
\* and never reads the latter (state.ts:39-42).
MergedWithDisk(own, onDisk) == [own EXCEPT !.seen = @ @@ onDisk.seen]

WrittenState(own, onDisk) == own

RaceInit ==
  /\ RunInit
  /\ ArticleOff
  /\ ServerOff
  /\ OpsOff
  /\ SummaryOff
  /\ AnimOff
  /\ RaceOff

\* An invocation starts: const state = await loadState().  A manual
\* invocation for the primary channel then checks the URL it was given
\* against the state it has just loaded and returns at once if the URL is
\* seen there (index.ts:254-259); a batch run is given no URL and goes to
\* its first source.
RLoad(p, k, url) ==
  /\ rPc[p] \in {"idle", "rejected"}
  /\ rStarted < Cardinality(Procs)
  /\ rStarted' = rStarted + 1
  /\ rClock' = rClock + 1
  /\ rKind' = [rKind EXCEPT ![p] = k]
  /\ rUrl' = [rUrl EXCEPT ![p] = url]
  /\ rState' = [rState EXCEPT ![p] = loadState(file)]
  /\ rIdx' = [rIdx EXCEPT ![p] = IF k = "manual" THEN 0 ELSE 1]
  /\ rNew' = [rNew EXCEPT ![p] = <<>>]
  /\ rPc' = [rPc EXCEPT ![p] =
       IF k # "manual" THEN "source"
       ELSE IF isArticleSeen(loadState(file), url) THEN "rejected"
       ELSE "loaded"]
  /\ UNCHANGED <<file, runVars, articleVars, serverVars, opVars, summaryVars, animVars, rEver>>

\* The run of p leaves its current source with state st (index.ts:361-376;
\* st is the state from before the source when the source threw).
RSourceDone(p, st) ==
  /\ rState' = [rState EXCEPT ![p] = st]
  /\ rNew' = [rNew EXCEPT ![p] = <<>>]
  /\ rIdx' = [rIdx EXCEPT ![p] = @ + 1]
  /\ rPc' = [rPc EXCEPT ![p] =
       IF rIdx[p] < Len(SOURCES) THEN "source" ELSE "save"]

\* seedSource or processSource up to the per-article loop (index.ts:88-143):
\* the candidates are fetched, the alert latch is set or cleared, and the
\* unseen URLs are kept for the loop.
RSource(p, outcome) ==
  /\ rPc[p] = "source"
  /\ LET source == SOURCES[rIdx[p]]
         urls   == fetchArticleUrls(source, outcome)
         st     == rState[p]
     IN
     IF outcome.kind = "throw" THEN RSourceDone(p, st)
     ELSE IF rKind[p] = "seed"
     THEN RSourceDone(p, seedSource(source, st, urls, rClock))
     ELSE IF Len(urls) = 0
     THEN RSourceDone(p, IF ~isSourceAlerted(st, source.name)
                         THEN markSourceAlerted(st, source.name, rClock)
                         ELSE st)
     ELSE LET cleared == IF isSourceAlerted(st, source.name)
                         THEN clearSourceAlert(st, source.name) ELSE st
              unseen  == FilterUnseen(cleared, urls)
          IN
          IF Len(unseen) = 0 THEN RSourceDone(p, cleared)
          ELSE /\ rState' = [rState EXCEPT ![p] = cleared]
               /\ rNew' = [rNew EXCEPT ![p] = unseen]
               /\ rPc' = [rPc EXCEPT ![p] = "article"]
               /\ UNCHANGED rIdx
  /\ UNCHANGED <<file, runVars, articleVars, serverVars, opVars, summaryVars, animVars, rKind, rStarted, rEver, rUrl, rClock>>

\* One article of a batch run's source (index.ts:145-218): marked under
\* the source's name and content type when it was published, even if the
\* same list has marked it before.  The one requested URL for a manual
\* invocation that published (index.ts:316-317).
RMark(p, posted) ==
  IF rKind[p] = "manual"
  THEN /\ rPc[p] = "loaded"
       /\ posted
       /\ rState' = [rState EXCEPT ![p] =
            markArticleSeen(@, rUrl[p],
              [title |-> ArticleTitle(rUrl[p]), source |-> "Manual",
               contentType |-> "technical"], rClock)]
       /\ rPc' = [rPc EXCEPT ![p] = "marked"]
       /\ rClock' = rClock + 1
       /\ UNCHANGED <<file, runVars, articleVars, serverVars, opVars, summaryVars, animVars, rKind, rStarted, rEver, rUrl, rIdx, rNew>>
  ELSE /\ rPc[p] = "article"
       /\ LET source == SOURCES[rIdx[p]]
              url    == Head(rNew[p])
              next   == MarkIfPosted(posted, rState[p],
                          markArticleSeen(rState[p], url,
                            [title |-> ArticleTitle(url),
                             source |-> source.name,
                             contentType |-> source.contentType], rClock))
          IN IF Len(rNew[p]) > 1
             THEN /\ rState' = [rState EXCEPT ![p] = next]
                  /\ rNew' = [rNew EXCEPT ![p] = Tail(@)]
                  /\ UNCHANGED <<rPc, rIdx>>
             ELSE RSourceDone(p, next)
       /\ rClock' = IF posted THEN rClock + 1 ELSE rClock
       /\ UNCHANGED <<file, runVars, articleVars, serverVars, opVars, summaryVars, animVars, rKind, rStarted, rEver, rUrl>>

\* await saveState(state): at the end of every batch run, and after the
\* mark of a manual invocation.
RSave(p) ==
  /\ rPc[p] = (IF rKind[p] = "manual" THEN "marked" ELSE "save")
  /\ file' = saveState(WrittenState(rState[p], loadState(file)))
  /\ rEver' = rEver \cup SeenIds(loadState(file'))
  /\ rPc' = [rPc EXCEPT ![p] = "idle"]
  /\ UNCHANGED <<runVars, articleVars, serverVars, opVars, summaryVars, animVars, rKind, rState, rStarted, rUrl, rIdx, rNew, rClock>>

\* A manual invocation in which a step of the pipeline failed returns
\* without marking or saving.
RManualEnd(p) ==
  /\ rKind[p] = "manual"
  /\ rPc[p] = "loaded"
  /\ rPc' = [rPc EXCEPT ![p] = "idle"]
  /\ UNCHANGED <<file, runVars, articleVars, serverVars, opVars, summaryVars, animVars, rKind, rState,
                 rStarted, rEver, rUrl, rIdx, rNew, rClock>>

RaceNext ==
  \/ \E p \in Procs, k \in {"batch", "seed"} : RLoad(p, k, "")
  \/ \E p \in Procs, url \in URLs : RLoad(p, "manual", url)
  \/ \E p \in Procs :
       /\ rPc[p] = "source"
       /\ \E outcome \in FetchOutcomes(SOURCES[rIdx[p]]) : RSource(p, outcome)
  \/ \E p \in Procs, posted \in BOOLEAN : RMark(p, posted)
  \/ \E p \in Procs : RSave(p)
  \/ \E p \in Procs : RManualEnd(p)

RaceSpec == RaceInit /\ [][RaceNext]_vars

\* ------------------------------------------- state operations on a heap
\* markArticleSeen, markSourceAlerted and clearSourceAlert (state.ts:49-89)
\* as they act on JavaScript objects.  An object is a mapping from keys to
\* values; the `seen` and `alertedSources` fields of a state object hold
\* references to the mapping objects.  A spread ({...x}) allocates a new
\* object with x's entries; nothing is written to an existing object.

\* The value a state object stands for.
Deref(h, r) ==
  IF "alertedSources" \in DOMAIN h[r]
  THEN [seen |-> h[h[r].seen], alertedSources |-> h[h[r].alertedSources]]
  ELSE [seen |-> h[h[r].seen]]

\* The heap with a new object, and the reference of the newest object.
Alloc(h, obj) == Append(h, obj)

Newest(h) == Len(h)

\* markArticleSeen writing into the objects it was given.
MarkInPlace(h, r, url, metadata, now) ==
  [heap |-> [h EXCEPT ![h[r].seen] =
                (articleId(url) :> SeenArticle(url, metadata, now)) @@ @],
   ref |-> r]

\* { ...state, seen: { ...state.seen, [id]: {...} } }
markArticleSeenOn(h, r, url, metadata, now) ==
  LET h1 == Alloc(h, (articleId(url) :> SeenArticle(url, metadata, now))
                       @@ h[h[r].seen])
      h2 == Alloc(h1, ("seen" :> Newest(h1)) @@ h[r])
  IN [heap |-> h2, ref |-> Newest(h2)]

\* { ...state, alertedSources: { ...state.alertedSources, [name]: now } }
markSourceAlertedOn(h, r, sourceName, now) ==
  LET old == IF "alertedSources" \in DOMAIN h[r]
             THEN h[h[r].alertedSources] ELSE <<>>
      h1 == Alloc(h, (sourceName :> now) @@ old)
      h2 == Alloc(h1, ("alertedSources" :> Newest(h1)) @@ h[r])
  IN [heap |-> h2, ref |-> Newest(h2)]

\* if (!state.alertedSources) return state;
\* const { [sourceName]: _, ...rest } = state.alertedSources;
\* return { ...state, alertedSources: rest }
clearSourceAlertOn(h, r, sourceName) ==
  IF "alertedSources" \notin DOMAIN h[r]
  THEN [heap |-> h, ref |-> r]
  ELSE LET old == h[h[r].alertedSources]
           h1 == Alloc(h, [n \in (DOMAIN old) \ {sourceName} |-> old[n]])
           h2 == Alloc(h1, ("alertedSources" :> Newest(h1)) @@ h[r])
       IN [heap |-> h2, ref |-> Newest(h2)]

\* The metadata passed to markArticleSeen.
OpMetadata ==
  [title |-> "t", source |-> "A", contentType |-> "technical"]

\* What new Date() may read during the call (state.ts:62, 77): the time at
\* which the existing records were made, or a later one.
OpTimes == {1, 2, 3}

\* The seen mappings and alert mappings a state may hold when an operation
\* is called; the records and latches in them were made at time 1.
OpSeenMappings ==
  {[id \in {articleId(u) : u \in us} |->
      SeenArticle(CHOOSE u \in us : articleId(u) = id, OpMetadata, 1)] :
     us \in SUBSET URLs}

OpAlertMappings == {[n \in ns |-> 1] : ns \in SUBSET SourceNames}

\* The heaps that hold one state: the seen mapping, the alert mapping if
\* the state has one, and the state object, which is the newest.
OpHeaps ==
  {<<sm, [seen |-> 1]>> : sm \in OpSeenMappings}
  \cup {<<sm, am, [seen |-> 1, alertedSources |-> 2]>> :
          sm \in OpSeenMappings, am \in OpAlertMappings}

\* The calls: the operation, its argument, and for the two operations
\* that read the clock what it reads; clearSourceAlert reads none (0).
OpCalls ==
  [name : {"markArticleSeen"}, arg : URLs, now : OpTimes]
  \cup [name : {"markSourceAlerted"}, arg : SourceNames, now : OpTimes]
  \cup [name : {"clearSourceAlert"}, arg : SourceNames, now : {0}]

StateOpsInit ==
  /\ RunInit
  /\ ArticleOff
  /\ ServerOff
  /\ RaceOff
  /\ SummaryOff
  /\ AnimOff
  /\ oHeap \in OpHeaps
  /\ oBefore = oHeap
  /\ oIn = Newest(oHeap)
  /\ oOp \in OpCalls
  /\ oOut = 0

\* The call returned res.
OpReturned(res) ==
  /\ oHeap' = res.heap
  /\ oOut' = res.ref
  /\ UNCHANGED <<file, runVars, articleVars, serverVars, raceVars,
                 summaryVars, animVars, oBefore, oIn, oOp>>

OMarkArticleSeen ==
  /\ oOut = 0
  /\ oOp.name = "markArticleSeen"
  /\ OpReturned(markArticleSeenOn(oHeap, oIn, oOp.arg, OpMetadata, oOp.now))

OMarkSourceAlerted ==
  /\ oOut = 0
  /\ oOp.name = "markSourceAlerted"
  /\ OpReturned(markSourceAlertedOn(oHeap, oIn, oOp.arg, oOp.now))

OClearSourceAlert ==
  /\ oOut = 0
  /\ oOp.name = "clearSourceAlert"
  /\ OpReturned(clearSourceAlertOn(oHeap, oIn, oOp.arg))

StateOpsNext == OMarkArticleSeen \/ OMarkSourceAlerted \/ OClearSourceAlert

StateOpsSpec == StateOpsInit /\ [][StateOpsNext]_vars

\* ------------------------------------------------------ generateSummaries
\* The parsing of the LLM's answer (summarizer.ts:90-97).  A text is a
\* sequence of characters over a letter, a blank and a dash; the separator
\* is three dashes.

Chars == {"a", " ", "-"}

Separator == <<"-", "-", "-">>

Responses == SeqsUpTo(Chars, MaxChars)

\* s[i..j], empty when j < i.
Slice(s, i, j) == SubSeq(s, i, j)

\* The separator starts at position i of s.
SeparatorAt(s, i) == i + 2 <= Len(s) /\ Slice(s, i, i + 2) = Separator

HasSeparator(s) == \E i \in 1..Len(s) : SeparatorAt(s, i)

\* The position of the leftmost separator of s.
FirstSeparator(s) ==
  CHOOSE i \in 1..Len(s) :
    SeparatorAt(s, i) /\ \A j \in 1..(i - 1) : ~SeparatorAt(s, j)

\* String.prototype.split('---'): the pieces between the separators, found
\* from left to right.
RECURSIVE Split(_)
Split(s) ==
  IF ~HasSeparator(s) THEN <<s>>
  ELSE LET i == FirstSeparator(s) IN
       <<Slice(s, 1, i - 1)>> \o Split(Slice(s, i + 3, Len(s)))

\* String.prototype.trim().
RECURSIVE TrimStart(_)
TrimStart(s) ==
  IF s # <<>> /\ Head(s) = " " THEN TrimStart(Tail(s)) ELSE s

RECURSIVE TrimEnd(_)
TrimEnd(s) ==
  IF s # <<>> /\ s[Len(s)] = " " THEN TrimEnd(Slice(s, 1, Len(s) - 1)) ELSE s

Trim(s) == TrimEnd(TrimStart(s))

\* const parts = response.split('---').map(p => p.trim());
\* mainSummary = parts[0] || response; secondaryAnalysis = parts[1] || ''
ParseSummaries(response) ==
  LET parts == [k \in DOMAIN Split(response) |-> Trim(Split(response)[k])]
  IN [mainSummary |-> IF parts[1] # <<>> THEN parts[1] ELSE response,
      secondaryAnalysis |-> IF Len(parts) >= 2 THEN parts[2] ELSE <<>>]

SummaryInit ==
  /\ RunInit
  /\ ArticleOff
  /\ ServerOff
  /\ RaceOff
  /\ OpsOff
  /\ AnimOff
  /\ gResponse \in Responses
  /\ gOut = <<>>

\* generateSummaries, from the LLM's answer on.
GenerateSummaries ==
  /\ gOut = <<>>
  /\ gOut' = <<ParseSummaries(gResponse)>>
  /\ UNCHANGED <<file, runVars, articleVars, serverVars, raceVars, opVars,
                 animVars, gResponse>>

SummarySpec == SummaryInit /\ [][GenerateSummaries]_vars

\* ------------------------------------------- the "Thinking" placeholder
\* The slash handler posts ":thinking_party: Thinking." and animates its
\* dots with a timer while processManualUrl runs (summarizer.ts:479-549);
\* postArticleThread rewrites the same message into the article's root post
\* (slack.ts:156-163) and processManualUrl calls onArticlePosted, which is
\* stopDotAnimation, after postArticleThread has returned (index.ts:278-293).
\* The timer callbacks interleave with the awaits of the pipeline, and an
\* update request that was sent is applied by Slack some time later.

ThinkingTexts == {"Thinking.", "Thinking..", "Thinking..."}

\* `:thinking_party: Thinking${'.'.repeat(dotCount)}`
ThinkingText(dotCount) ==
  CASE dotCount = 1 -> "Thinking."
    [] dotCount = 2 -> "Thinking.."
    [] OTHER        -> "Thinking..."

\* The placeholder is posted, the animation started, the pipeline called.
AnimationInit ==
  /\ RunInit
  /\ ArticleOff
  /\ ServerOff
  /\ RaceOff
  /\ OpsOff
  /\ SummaryOff
  /\ nMsg = ThinkingText(1)
  /\ nInterval = "pending"
  /\ nInflight = <<>>
  /\ nDots = 1
  /\ nPipe = "pipeline"
  /\ nPrimary \in BOOLEAN

AnimFrame == UNCHANGED <<runVars, articleVars, serverVars, raceVars,
                         opVars, summaryVars, nPrimary>>

\* stopDotAnimation: clearTimeout and animationInterval = undefined.
stopDotAnimation(interval) == "none"

\* The timer fires: tick sends the next "Thinking" text.
NTick ==
  /\ nInterval = "pending"
  /\ nDots' = (nDots % 3) + 1
  /\ nInflight' = <<ThinkingText((nDots % 3) + 1)>>
  /\ nInterval' = "fired"
  /\ UNCHANGED <<nMsg, nPipe>>
  /\ UNCHANGED file
  /\ AnimFrame

\* Slack applies the animation update (or rejects it: ok = FALSE) and the
\* request settles: finally re-arms the timer if animationInterval is set.
NSettle(ok) ==
  /\ nInflight # <<>>
  /\ nMsg' = IF ok THEN nInflight[1] ELSE nMsg
  /\ nInflight' = <<>>
  /\ nInterval' = IF nInterval # "none" THEN "pending" ELSE "none"
  /\ UNCHANGED <<nDots, nPipe>>
  /\ UNCHANGED file
  /\ AnimFrame

\* Content fetch, summaries and research: they return, or one throws.
NPipeline(ok) ==
  /\ nPipe = "pipeline"
  /\ nPipe' = IF ok THEN "root" ELSE "failed"
  /\ UNCHANGED <<nMsg, nInterval, nInflight, nDots>>
  /\ UNCHANGED file
  /\ AnimFrame

\* postArticleThread's chat.update of the placeholder into the root post.
NRoot(ok) ==
  /\ nPipe = "root"
  /\ nMsg' = IF ok THEN "article" ELSE nMsg
  /\ nPipe' = IF ok THEN "replies" ELSE "failed"
  /\ UNCHANGED <<nInterval, nInflight, nDots>>
  /\ UNCHANGED file
  /\ AnimFrame

\* The two thread replies; postArticleThread returns the handle or null.
NReplies(ok) ==
  /\ nPipe = "replies"
  /\ nPipe' = IF ok THEN "callback" ELSE "failed"
  /\ UNCHANGED <<nMsg, nInterval, nInflight, nDots>>
  /\ UNCHANGED file
  /\ AnimFrame

\* onArticlePosted?.()
NCallback ==
  /\ nPipe = "callback"
  /\ nInterval' = stopDotAnimation(nInterval)
  /\ nPipe' = "enrich"
  /\ UNCHANGED <<nMsg, nInflight, nDots>>
  /\ UNCHANGED file
  /\ AnimFrame

\* The URL of the command, and the record a primary-channel invocation
\* makes for it.
AnimUrl == "u1"

\* The image steps, then for the primary channel markArticleSeen and
\* saveState (index.ts:295-325): processManualUrl returns success, or its
\* catch returns a failure when an image step threw.
NEnrich(images) ==
  /\ nPipe = "enrich"
  /\ LET threw == images # "disabled"
                    /\ generateArticleCartoon(images) = "throw"
     IN /\ nPipe' = IF threw THEN "failed" ELSE "succeeded"
        /\ file' = IF ~threw /\ nPrimary
                   THEN saveState(markArticleSeen(loadState(file), AnimUrl,
                          [title |-> ArticleTitle(AnimUrl),
                           source |-> "Manual",
                           contentType |-> "technical"], 1))
                   ELSE file
  /\ UNCHANGED <<nMsg, nInterval, nInflight, nDots>>
  /\ AnimFrame

\* The handler's .then (summarizer.ts:527-537): stopDotAnimation; after a
\* failure it asks Slack to rewrite the placeholder into the error text.
NFinish ==
  /\ nPipe \in {"succeeded", "failed"}
  /\ nInterval' = stopDotAnimation(nInterval)
  /\ nPipe' = IF nPipe = "failed" THEN "errorUpdate" ELSE "done"
  /\ UNCHANGED <<nMsg, nInflight, nDots>>
  /\ UNCHANGED file
  /\ AnimFrame

\* Slack applies the error update, or rejects it: then the chain's catch
\* (summarizer.ts:538-549) sends one more.
NErrorUpdate(ok) ==
  /\ nPipe = "errorUpdate"
  /\ nMsg' = IF ok THEN "error" ELSE nMsg
  /\ nPipe' = IF ok THEN "done" ELSE "errorRetry"
  /\ nInterval' = IF ok THEN nInterval ELSE stopDotAnimation(nInterval)
  /\ UNCHANGED <<nInflight, nDots>>
  /\ UNCHANGED file
  /\ AnimFrame

\* Slack applies the catch's update, or rejects it too: the rejection is
\* unhandled and the placeholder keeps its text.
NErrorRetry(ok) ==
  /\ nPipe = "errorRetry"
  /\ nMsg' = IF ok THEN "error" ELSE nMsg
  /\ nPipe' = "done"
  /\ UNCHANGED <<nInterval, nInflight, nDots>>
  /\ UNCHANGED file
  /\ AnimFrame

AnimationNext ==
  \/ NTick
  \/ \E ok \in BOOLEAN : NSettle(ok)
  \/ \E ok \in BOOLEAN : NPipeline(ok)
  \/ \E ok \in BOOLEAN : NRoot(ok)
  \/ \E ok \in BOOLEAN : NReplies(ok)
  \/ NCallback
  \/ \E images \in {"disabled", "ok"} : NEnrich(images)
  \/ NFinish
  \/ \E ok \in BOOLEAN : NErrorUpdate(ok)
  \/ \E ok \in BOOLEAN : NErrorRetry(ok)

AnimationSpec == AnimationInit /\ [][AnimationNext]_vars

\* ---------------------------------------------------------- properties
\* A batch run that got past loadConfig and has returned.
RunDone == pc = "idle" /\ kind = "batch" /\ configOk /\ result = "done"

\* The state that holds the alert latch of the i-th source right now: the
\* local of processSource while that source's articles are processed, the
\* run's state inside a run, the state file between invocations.
LatchState(i) ==
  IF pc = "article" /\ srcIdx = i THEN currentState
  ELSE IF pc \in {"source", "article", "save"} THEN state
  ELSE loadState(file)

\* C1 (as claimed): over the consecutive normal runs in which a source
\* yields zero candidates, exactly one alert reaches the channel, sent by
\* the first of them, and the source is latched as alerted exactly while
\* such an episode lasts: a run with candidates ends the episode and the
\* next zero-candidate run begins a new one with its own alert.  An alert
\* that Slack rejects latches the source all the same (sendMessage returns
\* normally), and that episode passes without any alert.
OneAlertPerEpisode ==
  \A i \in DOMAIN SOURCES :
    LET name == SOURCES[i].name
        ep   == episode[name]
    IN /\ ep.runs >= 1 => (ep.alerts = 1 /\ ep.first)
       /\ isSourceAlerted(LatchState(i), name) <=> (ep.runs >= 1)

\* Source A yielded nothing, then candidates, then nothing again, in three
\* normal runs: the third run began A's second episode and sent its alert.
ReAlertAfterRecovery ==
  /\ RunDone /\ ~seedMode
  /\ runs = 3
  /\ episode["A"] = [runs |-> 1, alerts |-> 1, first |-> TRUE, began |-> 2]
  /\ isSourceAlerted(loadState(file), "A")
  /\ loadState(file).alertedSources["A"] >= 3

\* C2: a source whose processing throws does not stop the run: the sources
\* are visited in registry order, all of them by the time the run reaches
\* its save, and the run saves once and returns.
SourceIsolation ==
  (kind = "batch" /\ configOk) =>
    /\ \A i \in DOMAIN srcLog : srcLog[i].name = SOURCES[i].name
    /\ pc \in {"source", "article"} => Len(srcLog) = srcIdx - 1
    /\ pc = "save" => Len(srcLog) = Len(SOURCES)
    /\ pc = "idle" => (Len(srcLog) = Len(SOURCES) /\ saveCalls = 1
                       /\ result = "done")

\* A threw, B and C each published their article, and the run saved.
ThrowThenTwoPublished ==
  /\ RunDone /\ ~seedMode
  /\ Len(srcLog) = 3
  /\ srcLog[1].threw /\ ~srcLog[2].threw /\ ~srcLog[3].threw
  /\ failed = 1 /\ processed = 2
  /\ SeenIds(loadState(file)) = {articleId("u1"), articleId("u2")}

\* C3: an article whose pipeline throws, or whose publish call returns no
\* thread handle, leaves the state as it was, and the loop goes on to the
\* next unseen URL; an article is marked seen only with a handle.
FailedArticleNotMarked ==
  [][ pc = "article" =>
        LET url   == Head(newUrls)
            after == IF pc' = "article" THEN currentState' ELSE state'
        IN /\ ~lastArticle'.posted => after = currentState
           /\ lastArticle'.posted => isArticleSeen(after, url)
           /\ IF Len(newUrls) > 1
              THEN pc' = "article" /\ newUrls' = Tail(newUrls)
              ELSE pc' \in {"source", "save"}
    ]_vars

\* The first of A's two unseen articles threw; it is not marked and the
\* loop is at the second one.
SkippedFirstArticle ==
  /\ pc = "article" /\ srcIdx = 1
  /\ lastArticle.threw /\ ~lastArticle.posted
  /\ Len(newUrls) = 1
  /\ SeenIds(currentState) = {}

\* C4: a manual invocation for a channel other than the primary one never
\* answers from the seen check and never writes the state file.
NonPrimaryLeavesState ==
  [][ (kind' = "manual" /\ mChannelId' \notin {"", PrimaryChannelId}) =>
        /\ file' = file
        /\ saveCalls' = 0
        /\ result' # "Article already processed"
    ]_vars

\* A URL that a batch run had recorded was published again to another
\* channel, and its record is still the batch run's.
SeenUrlPostedElsewhere ==
  /\ pc = "idle" /\ kind = "manual" /\ mChannelId = "OTHER"
  /\ result = "Posted"
  /\ isArticleSeen(loadState(file), mUrl)
  /\ loadState(file).seen[articleId(mUrl)].source # "Manual"

\* C5 (as claimed): once a manual invocation published a URL to the primary
\* channel, a later manual invocation for that URL and the primary channel
\* returns 'Article already processed' without calling any collaborator.
\* An invocation whose image step threw after the thread was posted saved
\* nothing, and the next one publishes the URL again.
SecondManualRejected ==
  (kind = "manual" /\ configOk /\ priorPosted
     /\ mChannelId \in {"", PrimaryChannelId}) =>
    /\ result = "Article already processed"
    /\ pc = "idle"
    /\ called = {} /\ slack = {}
    /\ saveCalls = 0

\* The second request names the primary channel, the first omitted it.
RejectedSecondRequest ==
  /\ kind = "manual" /\ configOk /\ priorPosted
  /\ mChannelId = PrimaryChannelId
  /\ result = "Article already processed"
  /\ loadState(file).seen[articleId(mUrl)].source = "Manual"

\* C6: a seed run calls neither summarization nor research nor publish,
\* and sends no Slack message, whatever its sources do.
SeedRunIsSilent ==
  (kind = "batch" /\ seedMode) =>
    /\ called \cap {"content", "summarize", "research", "publish"} = {}
    /\ slack = {}

\* A seed run in which one source threw and the others were marked.
SeedRunWithFailure ==
  /\ RunDone /\ seedMode
  /\ failed = 1 /\ processed = 2

\* C7 (as claimed): a normal run in which every article published ends
\* with the same set of seen ids as a seed run over the same candidates from
\* the same starting state.  With images enabled every thread is posted and
\* no article is marked.
SeedEqualsAllPublished ==
  (kind = "batch" /\ configOk /\ ~seedMode /\ allOk) =>
    /\ pc = "save" => SeenIds(state) = SeenIds(seedShadow)
    /\ RunDone => SeenIds(loadState(file)) = SeenIds(seedShadow)

\* A normal run published two articles; the seed run would hold the same
\* two ids under other titles.
TwoPublishedLikeSeed ==
  /\ RunDone /\ ~seedMode /\ allOk
  /\ processed = 2
  /\ SeenIds(seedShadow) = {articleId("u1"), articleId("u2")}
  /\ \A id \in SeenIds(seedShadow) :
       seedShadow.seen[id].title # loadState(file).seen[id].title

\* C8: an id in the seen set stays in it: in the state file across
\* invocations, and in the in-memory state through the steps of one.
SeenOnlyGrows ==
  [][ /\ SeenIds(loadState(file)) \subseteq SeenIds(loadState(file'))
      /\ (pc = "idle" /\ pc' # "idle") =>
           SeenIds(loadState(file)) \subseteq SeenIds(state')
      /\ (pc \in {"source", "save", "manual"} /\ pc' = "idle") =>
           SeenIds(state) \subseteq SeenIds(loadState(file'))
      /\ (pc = "source" /\ pc' # "article") =>
           SeenIds(state) \subseteq SeenIds(state')
      /\ (pc = "source" /\ pc' = "article") =>
           SeenIds(state) \subseteq SeenIds(currentState')
      /\ (pc = "article" /\ pc' = "article") =>
           SeenIds(currentState) \subseteq SeenIds(currentState')
      /\ (pc = "article" /\ pc' # "article") =>
           SeenIds(currentState) \subseteq SeenIds(state')
    ]_vars

\* The file saved by the latest run still holds a record made by an
\* earlier invocation, next to one made by this run.
OldRecordSurvives ==
  /\ RunDone /\ runs >= 2 /\ processed >= 1
  /\ \E id1, id2 \in SeenIds(loadState(file)) :
       /\ loadState(file).seen[id1].source = "Manual"
       /\ loadState(file).seen[id2].source # "Manual"
       /\ loadState(file).seen[id1].postedAt < loadState(file).seen[id2].postedAt

\* C9: a batch run calls saveState exactly once, after the last source
\* and also when sources failed, and never inside the per-source loop.
SaveOncePerRun ==
  (kind = "batch" /\ configOk) =>
    /\ pc \in {"source", "article", "save"} => saveCalls = 0
    /\ pc = "save" => srcIdx = Len(SOURCES) + 1
    /\ pc = "idle" => saveCalls = 1

\* A run in which two sources failed saved once.
SavedDespiteFailures ==
  /\ RunDone /\ failed = 2 /\ saveCalls = 1
  /\ Len(srcLog) = Len(SOURCES)

\* C10: when a source that is latched as alerted yields at least one
\* candidate, in a normal run or in a seed run, its alert is cleared
\* before any article is processed.
AlertClearedOnCandidates ==
  (kind = "batch" /\ yielded = "some") =>
    /\ pc = "article" =>
         ~isSourceAlerted(currentState, SOURCES[srcIdx].name)
    /\ pc \in {"source", "save"} =>
         ~isSourceAlerted(state, SOURCES[srcIdx - 1].name)

\* C11: in a normal run, a source that is not alerted and yields zero
\* candidates comes back with its alert record set and the seen mapping
\* untouched, and only the candidate fetch and the alert were made for it.
ZeroCandidatesOnlyLatch ==
  [][ (pc = "source" /\ ~seedMode /\ yielded' = "zero"
         /\ ~isSourceAlerted(state, SOURCES[srcIdx].name)) =>
        /\ isSourceAlerted(state', SOURCES[srcIdx].name)
        /\ state'.alertedSources[SOURCES[srcIdx].name] = clock
        /\ state'.seen = state.seen
        /\ called' = {"urls"}
        /\ slack' \in {{"alert"}, {"alert:failed"}}
        /\ pc' # "article"
    ]_vars

\* C yielded nothing for the first time, in a run whose state holds two
\* seen records: it is latched and both records are still there.
LatchedWithSeenKept ==
  /\ pc = "save" /\ ~seedMode /\ yielded = "zero"
  /\ slack = {"alert"}
  /\ state.alertedSources["C"] = clock
  /\ Cardinality(SeenIds(state)) = 2

\* The events of the article followed call by call.
Has(e) == \E i \in DOMAIN aEvents : aEvents[i] = e

Count(e) == Cardinality({i \in DOMAIN aEvents : aEvents[i] = e})

ImageEvents == {"infographic:progress", "infographic", "infographic:failure",
                "infographic:throw", "infographic:notUploaded",
                "cartoon:progress", "cartoon", "cartoon:failure",
                "cartoon:throw", "cartoon:notUploaded"}

\* The texts of the messages postArticleThread put into the thread, in
\* order: the messages Slack accepted before the function returned; a
\* rejected call sent nothing, and the image steps post after the return.
ThreadSent ==
  LET own == SelectSeq(aSlack, LAMBDA m : m.text \in {"root", "eli5", "scoop"})
  IN [i \in DOMAIN own |-> own[i].text]

\* C12 (as claimed): once the root post and both replies were sent, no
\* failure of the image enrichment (error result, exception in the
\* generator, failed upload) keeps a batch run from marking the article or
\* makes a manual invocation return a failure.
ImageFailureNotFatal ==
  (aPc = "done" /\ aIn.o.post = "ok") =>
    /\ aIn.mode = "batch" =>
         (Has("mark") /\ isArticleSeen(aState, ArticleUrl) /\ ~Has("caught"))
    /\ aIn.mode = "manual" =>
         /\ aResult = "Posted"
         /\ aIn.channelId \in {"", PrimaryChannelId} =>
              isArticleSeen(loadState(file), ArticleUrl)

\* C13: runAgenticResearch never raises: a failed search-augmented request
\* falls back to the request without search, two failed requests give the
\* 'Research unavailable' text, and the publish step runs in every case.
ResearchNeverRaises ==
  /\ ~Has("research:throw")
  /\ (Len(aEvents) >= 3 /\ aIn.o.primary = "fail") =>
       Has("research:" \o runSimpleResearch(aIn.o.simple))
  /\ (Len(aEvents) >= 3 /\ aIn.o.primary = "fail" /\ aIn.o.simple = "fail") =>
       Has("research:unavailable")
  /\ (aPc = "done" /\ aIn.o.summaries = "ok") =>
       (Has("root") \/ Has("root:failed") \/ Has("root:nots"))

\* Both research requests failed and the whole thread was published.
PublishedWithoutResearch ==
  /\ aPc = "done"
  /\ aIn.o.primary = "fail" /\ aIn.o.simple = "fail"
  /\ Has("research:unavailable")
  /\ aHandle = "ts" /\ Has("scoop")

\* C15: a manual invocation calls onArticlePosted once, after
\* postArticleThread returned a handle and before any image step, and never
\* without a handle; it marks and saves only for the primary channel and
\* only after the image steps.
CallbackThenImagesThenCommit ==
  aIn.mode = "manual" =>
    /\ Count("callback") <= 1
    /\ Has("callback") => (aHandle = "ts" /\ aIn.callback)
    /\ (aHandle = "ts" /\ aIn.callback
          /\ aPc \in {"images", "infographicGen", "cartoon", "cartoonGen",
                      "mark", "save", "done", "catch"}) =>
         Count("callback") = 1
    /\ \A i, j \in DOMAIN aEvents :
         /\ (aEvents[i] = "callback" /\ aEvents[j] \in ImageEvents) => i < j
         /\ (aEvents[i] = "callback"
               /\ aEvents[j] \in {"root", "eli5", "scoop"}) => j < i
         /\ (aEvents[i] \in {"mark", "save"} /\ aEvents[j] \in ImageEvents)
              => j < i
    /\ (Has("mark") \/ Has("save") \/ file # NoFile) =>
         (aIn.channelId \in {"", PrimaryChannelId} /\ aHandle = "ts")
    /\ (file # NoFile) => (Has("save") /\ aPc = "done")
    /\ (aPc = "done" /\ aHandle = "ts" /\ ~Has("caught")
          /\ aIn.channelId \in {"", PrimaryChannelId}) => Count("save") = 1

\* A manual invocation for the primary channel, with a callback and with
\* images enabled: the callback came after the thread and before the first
\* image step, and nothing was committed when that step threw.
ManualFullPath ==
  /\ aIn.mode = "manual" /\ aIn.callback /\ aIn.channelId = ""
  /\ aEvents = <<"content", "summarize", "research:report", "root", "eli5",
                 "scoop", "callback", "infographic:progress",
                 "infographic:throw", "caught">>
  /\ Len(aSlack) = 4
  /\ aSlack[4] = [text |-> "infographic:progress",
                  ts |-> "infographic:progressTs", thread_ts |-> aThreadTs]
  /\ aResult = "Failed to fetch article"
  /\ file = NoFile

\* C19: postArticleThread sends the root message, then the ELI5 reply, then
\* the research reply, each reply with the root message's ts as its
\* thread_ts; it returns the root's ts, and only when all three were sent,
\* and null when the root post or either reply failed.
RootThenEli5ThenScoop ==
  /\ \E n \in 0..3 : ThreadSent = SubSeq(<<"root", "eli5", "scoop">>, 1, n)
  /\ \A i \in DOMAIN aSlack :
       i <= Len(ThreadSent) <=> aSlack[i].text \in {"root", "eli5", "scoop"}
  /\ Len(aSlack) > Len(ThreadSent) => aHandle = "ts"
  /\ \A i \in DOMAIN aSlack :
       IF i = 1
       THEN aSlack[i].thread_ts = "none"
       ELSE /\ aSlack[1].ts \in {"rootTs", "processingTs"}
            /\ aSlack[i].thread_ts = aSlack[1].ts
            /\ aSlack[i].ts \notin {aSlack[1].ts, "undefined"}
  /\ aHandle = "ts" => aThreadTs = aSlack[1].ts
  /\ Has("eli5:failed") => (Has("root") /\ ~Has("scoop"))
  /\ Has("scoop:failed") => (Has("root") /\ Has("eli5"))
  /\ aHandle = "ts" => ThreadSent = <<"root", "eli5", "scoop">>
  /\ (aHandle = "null" /\ aIn.o.post = "noTs") => ThreadSent = <<"root">>
  /\ aHandle # "none" => (aHandle = "null" <=> aIn.o.post # "ok")
  /\ (aHandle = "none") <=> (aPc \in {"content", "summarize", "research",
                                      "root", "reply1", "reply2"}
                             \/ (aIn.o.post = "none" /\ aPc \in {"catch", "done"}))

\* The root was written over the processing message, both replies
\* followed, and the handle came back.
ThreadComplete ==
  /\ aPc = "returned" /\ aIn.processingTs
  /\ aHandle = "ts" /\ aThreadTs = "processingTs"
  /\ aSlack = <<[text |-> "root", ts |-> "processingTs", thread_ts |-> "none"],
                [text |-> "eli5", ts |-> "reply1Ts",
                 thread_ts |-> "processingTs"],
                [text |-> "scoop", ts |-> "reply2Ts",
                 thread_ts |-> "processingTs"]>>

\* C20 (as stated): in a batch run an article whose root post was sent is
\* marked seen even when one of the two replies failed.
ReplyFailureStillMarked ==
  (aIn.mode = "batch" /\ aPc = "done"
     /\ aIn.o.post \in {"reply1Fail", "reply2Fail"}) =>
    isArticleSeen(aState, ArticleUrl)

\* C20 (amended): a failed reply blocks seen-marking as a failed root post
\* does: postArticleThread returns null and the batch run leaves the
\* article unmarked, to be retried by the next run.
ReplyFailureBlocksMarking ==
  (aIn.mode = "batch" /\ aHandle # "none"
     /\ aIn.o.post \in {"reply1Fail", "reply2Fail"}) =>
    /\ Has("root")
    /\ aHandle = "null"
    /\ ~Has("mark")
    /\ ~isArticleSeen(aState, ArticleUrl)
    /\ aPc \in {"returned", "sleep", "done"}

\* The root post and the ELI5 reply were sent, the research reply failed,
\* and the batch run went on without marking the article.
RootSentNotMarked ==
  /\ aIn.mode = "batch" /\ aPc = "done"
  /\ aEvents = <<"content", "summarize", "research:report", "root", "eli5",
                 "scoop:failed", "sleep">>
  /\ ~isArticleSeen(aState, ArticleUrl)

\* C14: a bad state file never fails a run: with the file missing,
\* unparsable or otherwise unusable, every batch run that passed loadConfig
\* runs to its save and every manual invocation returns one of its results.
BadFileNeverFailsRun ==
  (pc = "idle" /\ kind # "none" /\ configOk) =>
    /\ result # "TypeError"
    /\ kind = "batch" => (result = "done" /\ saveCalls = 1)

\* The words that are the article's URL, plain or in link syntax.
UrlWords == {PlainUrl, LinkBare, LinkLabel}

\* C16 (as claimed): a slash command whose text is a URL, plain or in link
\* syntax, followed by the keyword "announcement" starts the manual pipeline
\* with content type "announcement"; the URL alone starts it with
\* "technical".
KeywordSetsContentType ==
  (/\ hStarted.fn = "processManualUrl"
   /\ Len(hReq.text) \in 1..2
   /\ hReq.text[1] \in UrlWords
   /\ Len(hReq.text) = 2 => hReq.text[2] = "announcement")
  => hStarted.contentType =
       (IF Len(hReq.text) = 2 THEN "announcement" ELSE "technical")

\* C17: with a webhook secret configured, a /cron request whose
\* Authorization header is not "Bearer <secret>" is answered 401 and starts
\* nothing; with a signing secret configured, a slash command whose
\* signature is not the valid one is answered 401 and starts nothing.
UnauthorizedStartsNothing ==
  hStatus # 0 =>
    /\ (/\ hReq.path = "/cron"
        /\ hConfig.webhookSecret # ""
        /\ hReq.auth # "Bearer " \o hConfig.webhookSecret)
       => (hStatus = 401 /\ hStarted = NothingStarted)
    /\ (/\ hReq.path = "/slack/commands"
        /\ hConfig.slackSigningSecret # ""
        /\ hReq.signature # ValidSignature)
       => (hStatus = 401 /\ hStarted = NothingStarted)

\* A well-formed, fresh slash command with a forged signature was refused.
ForgedCommandRefused ==
  /\ hReq.path = "/slack/commands"
  /\ hConfig.slackSigningSecret # ""
  /\ hReq.signature = "v0=bad"
  /\ hReq.timestamp = "fresh"
  /\ hReq.text = <<PlainUrl>>
  /\ hReq.thinking
  /\ hStatus = 401
  /\ hStarted = NothingStarted

\* C18: a save replaces the file by the saving invocation's own state,
\* whatever the file held: every record written since that invocation
\* loaded, and not marked by it too, is gone after the save.  With two
\* overlapping invocations a lost update is therefore reachable (LostUpdate).
SaveWritesOwnSnapshot ==
  [][file' # file =>
       \E p \in Procs :
         /\ rPc[p] # "idle"
         /\ rPc'[p] = "idle"
         /\ loadState(file') = rState[p]
         /\ SeenIds(loadState(file)) \ SeenIds(loadState(file'))
              = SeenIds(loadState(file)) \ SeenIds(rState[p])]_vars

\* A record that one invocation wrote to the file is absent from the file
\* after the other invocation, which had loaded before that write, saved.
LostUpdate ==
  /\ \E id \in rEver : id \notin SeenIds(loadState(file))
  /\ \A p \in Procs : rPc[p] = "idle"
  /\ rStarted = 2

\* C21 (as claimed): within a source the inter-article delay is awaited
\* between every two successive articles, whatever the outcome of the
\* earlier one: whenever an article has been processed and another article
\* of the same source follows, the delay was awaited.
DelayBetweenArticles ==
  (/\ kind = "batch"
   /\ pc = "article"
   /\ (lastArticle.posted \/ lastArticle.threw \/ lastArticle.slept))
  => lastArticle.slept

\* The records that two states both hold are equal, field by field.
SameRecords(a, b) ==
  \A id \in SeenIds(a) \cap SeenIds(b) : a.seen[id] = b.seen[id]

\* C22 (as claimed): a seen record never changes once it exists: its url,
\* title, source, contentType and postedAt are the same in every later
\* state, in the state file across invocations and in the in-memory state
\* through the steps of one.
RecordsNeverChange ==
  [][ /\ SameRecords(loadState(file), loadState(file'))
      /\ (pc = "idle" /\ pc' # "idle") =>
           SameRecords(loadState(file), state')
      /\ (pc \in {"source", "save", "manual"} /\ pc' = "idle") =>
           SameRecords(state, loadState(file'))
      /\ (pc = "source" /\ pc' # "article") => SameRecords(state, state')
      /\ (pc = "source" /\ pc' = "article") =>
           SameRecords(state, currentState')
      /\ (pc = "article" /\ pc' = "article") =>
           SameRecords(currentState, currentState')
      /\ (pc = "article" /\ pc' # "article") =>
           SameRecords(currentState, state')
    ]_vars

\* C25 (as claimed): over any sequence of normal batch runs on the same
\* state file, no URL has its root post sent more than once.
RootPostedOnce == \A u \in DOMAIN rootSent : rootSent[u] <= 1

\* C26 (as claimed): within one normal batch run no URL goes through the
\* publish step more than once, also when a feed lists it twice or two
\* sources list it.
PublishedOncePerRun == \A u \in DOMAIN publishCalls : publishCalls[u] <= 1

\* C23: markArticleSeen, markSourceAlerted and clearSourceAlert write to no
\* object that existed before the call, so the input state is unchanged;
\* markArticleSeen leaves the alert mapping as it was, the alert operations
\* leave the seen mapping as it was, and an alert operation on one source
\* leaves the alert status of every other source as it was.  The returned
\* state is the one the operations on values give.
CopyOnWrite ==
  oOut # 0 =>
    LET in  == Deref(oBefore, oIn)
        out == Deref(oHeap, oOut)
    IN
    /\ \A r \in DOMAIN oBefore : oHeap[r] = oBefore[r]
    /\ Deref(oHeap, oIn) = in
    /\ oOp.name = "markArticleSeen" =>
         /\ ("alertedSources" \in DOMAIN out) = ("alertedSources" \in DOMAIN in)
         /\ "alertedSources" \in DOMAIN in =>
              out.alertedSources = in.alertedSources
         /\ out = markArticleSeen(in, oOp.arg, OpMetadata, oOp.now)
    /\ oOp.name = "markSourceAlerted" =>
         /\ out.seen = in.seen
         /\ \A n \in SourceNames \ {oOp.arg} :
              isSourceAlerted(out, n) = isSourceAlerted(in, n)
         /\ out = markSourceAlerted(in, oOp.arg, oOp.now)
    /\ oOp.name = "clearSourceAlert" =>
         /\ out.seen = in.seen
         /\ \A n \in SourceNames \ {oOp.arg} :
              isSourceAlerted(out, n) = isSourceAlerted(in, n)
         /\ out = clearSourceAlert(in, oOp.arg)

\* markArticleSeen returned for a URL that the input state already held,
\* in a state with a latched source: the input still holds the old record.
MarkedOverOldRecord ==
  /\ oOut # 0
  /\ oOp = [name |-> "markArticleSeen", arg |-> "u1", now |-> 3]
  /\ isArticleSeen(Deref(oBefore, oIn), "u1")
  /\ isSourceAlerted(Deref(oBefore, oIn), "B")
  /\ Deref(oHeap, oIn).seen[articleId("u1")].postedAt = 1
  /\ Deref(oHeap, oOut).seen[articleId("u1")].postedAt = 3

\* The position of the rightmost separator of s.
LastSeparator(s) ==
  CHOOSE i \in 1..Len(s) :
    SeparatorAt(s, i) /\ \A j \in (i + 1)..Len(s) : ~SeparatorAt(s, j)

\* C24 (as claimed): mainSummary is the trimmed text before the separator
\* and secondaryAnalysis the trimmed text after it (after the first or
\* after the last one, if there are several); without a separator
\* mainSummary is the whole response, trimmed or not, and secondaryAnalysis
\* is empty.
SplitOnSeparator ==
  gOut # <<>> =>
    IF HasSeparator(gResponse)
    THEN /\ gOut[1].mainSummary =
              Trim(Slice(gResponse, 1, FirstSeparator(gResponse) - 1))
         /\ gOut[1].secondaryAnalysis \in
              {Trim(Slice(gResponse, FirstSeparator(gResponse) + 3,
                          Len(gResponse))),
               Trim(Slice(gResponse, LastSeparator(gResponse) + 3,
                          Len(gResponse)))}
    ELSE /\ gOut[1].mainSummary \in {gResponse, Trim(gResponse)}
         /\ gOut[1].secondaryAnalysis = <<>>

\* C27 (as claimed): once the placeholder has been rewritten into the
\* article's root post, no animation update rewrites it back into a
\* "Thinking" text.
RootPostNotOverwritten ==
  [][nMsg = "article" => nMsg' \notin ThinkingTexts]_vars

\* C28 (as claimed): a source is latched as alerted only when its alert
\* was delivered: a zero-candidate run whose alert message fails leaves
\* the source unlatched.
LatchOnlyIfDelivered ==
  [][ (pc = "source" /\ ~seedMode /\ yielded' = "zero"
         /\ ~isSourceAlerted(state, SOURCES[srcIdx].name)
         /\ isSourceAlerted(state', SOURCES[srcIdx].name))
      => slack' = {"alert"}
    ]_vars

\* C29 (as claimed): of two manual invocations for the same URL that overlap
\* in time, at most one publishes the article: the two are never both past
\* publication of the same URL at once.
AtMostOnePublishes ==
  ~(/\ \A p \in Procs : rKind[p] = "manual" /\ rPc[p] = "marked"
    /\ \A p, q \in Procs : rUrl[p] = rUrl[q])

\* C29 (as the program is meant to behave): a manual invocation is rejected
\* as already processed exactly when the state file held the URL's record at
\* the moment the invocation loaded it; the state loaded by an invocation
\* that goes on to publish did not hold it, whatever other invocations are
\* doing meanwhile.
RejectedIffSeenAtLoad ==
  \A p \in Procs :
    rKind[p] = "manual" =>
      /\ rPc[p] = "rejected" => articleId(rUrl[p]) \in SeenIds(rState[p])
      /\ rPc[p] = "loaded" => articleId(rUrl[p]) \notin SeenIds(rState[p])

\* Two manual invocations for the same URL overlapped, and both published:
\* neither has saved yet.
BothPublished ==
  /\ \A p \in Procs : rKind[p] = "manual" /\ rPc[p] = "marked"
  /\ \A p, q \in Procs : rUrl[p] = rUrl[q]
  /\ rStarted = 2

====
